---- MODULE Spec2Model ----
(***************************************************************************)
(* Topic-isolated conversation cache of Desktop Commander MCP.             *)
(*                                                                         *)
(* The model follows src/unnamed/part_001 (the topic-based cache handlers),*)
(* src/src/tools/schemas.ts (argument defaults) and src/src/server.ts (the *)
(* dispatch layer that ticks the tool-call counter).                       *)
(*                                                                         *)
(* Every handler is an async function.  A handler runs synchronously up to *)
(* its next file-system call and is suspended there; the step that resumes *)
(* it performs the effect of the pending call and runs the code up to the  *)
(* following call (or to the return).  The dispatch layer delivers one     *)
(* external operation at a time; the auto-update started by the tool-call  *)
(* counter is not awaited and its steps interleave with everything else.   *)
(***************************************************************************)
EXTENDS Integers, Sequences, FiniteSets, TLC

VARIABLES cacheState, dirs, files, manifestFile, now, ext, autos, result

vars == <<cacheState, dirs, files, manifestFile, now, ext, autos, result>>

(***************************************************************************)
(* Bounds of the model                                                     *)
(***************************************************************************)
MaxCalls == 3
MaxAutos == 1
MaxMs == 1
MaxTicks == 8
MaxCleanupCalls == 9
MaxSeededCalls == 4

(***************************************************************************)
(* Program constants                                                       *)
(***************************************************************************)
DefaultUpdateInterval == 10
DefaultCleanupAfterDays == 30
DefaultMaxSessions == 10
SessionOnlyCleanupDays == 7
MsPerDay == 86400000

Topics == {"a", "b", "c"}
NoTopic == "<none>"
TwoTopics == {"a", "b"}
TopicArgs == TwoTopics \cup {NoTopic}
DefaultBase == "C:\\Claude_Session"
OtherBase == "D:\\Other"
Bases == {DefaultBase, OtherBase}
NoName == <<>>
Undefined == -1
ManifestVersion == "2.0.0"

FileNames == <<"conversation_log.md", "current_project_state.md",
               "decisions_made.md", "next_steps.md", "cache_protocol.md">>
cacheFiles == <<"conversation_log.md", "current_project_state.md",
                "decisions_made.md", "next_steps.md">>

(***************************************************************************)
(* Ordered maps: a JavaScript object keeps its keys in insertion order.    *)
(***************************************************************************)
Keys(m) == {m[i].key : i \in 1..Len(m)}
KeySeq(m) == [i \in 1..Len(m) |-> m[i].key]
Has(m, k) == \E i \in 1..Len(m) : m[i].key = k
Get(m, k) == m[CHOOSE i \in 1..Len(m) : m[i].key = k].val
Put(m, k, v) ==
    IF Has(m, k)
    THEN [i \in 1..Len(m) |-> IF m[i].key = k THEN [key |-> k, val |-> v] ELSE m[i]]
    ELSE Append(m, [key |-> k, val |-> v])
Del(m, k) == SelectSeq(m, LAMBDA e : e.key # k)

(***************************************************************************)
(* Date handling: a Date is a number of milliseconds; toISOString keeps    *)
(* the milliseconds and new Date(iso) reads them back.                     *)
(***************************************************************************)
toISOString(ms) == [iso |-> ms]
getTime(s) == s.iso
NoDate == [iso |-> Undefined]

(***************************************************************************)
(* Paths and the file-system collaborator                                  *)
(***************************************************************************)
\* path.join normalises its result: the segment "." names the directory
\* itself.
join(p, name) == IF name = "." THEN p ELSE Append(p, name)

getCacheDirectory(baseCacheDir, topic) ==
    IF topic = NoTopic THEN <<baseCacheDir>> ELSE join(<<baseCacheDir>>, topic)

existsSync(w, p) == p \in w.dirs

createDirectory(w, p) ==
    [w EXCEPT !.dirs = @ \cup {SubSeq(p, 1, n) : n \in 1..Len(p)}]

writeFile(w, p, content, mode) ==
    LET old == IF p \in DOMAIN w.files THEN w.files[p] ELSE <<>>
        new == IF mode = "append" THEN old \o content ELSE content
    IN [w EXCEPT !.files = [q \in DOMAIN w.files \cup {p} |->
                               IF q = p THEN new ELSE w.files[q]]]

readFile(w, p) == IF p \in DOMAIN w.files THEN w.files[p] ELSE <<>>

(***************************************************************************)
(* Session manifest                                                        *)
(***************************************************************************)
\* The manifest file holds text: `parses` tells whether JSON.parse accepts it,
\* `json` is the value it yields, and activeDefined whether that value has an
\* activeSessions object.
DefaultManifest ==
    [activeSessions |-> <<>>, archivedSessions |-> <<>>,
     archivedDefined |-> FALSE, activeDefined |-> TRUE,
     manifestVersion |-> ManifestVersion]

NoManifestFile == [present |-> FALSE, parses |-> TRUE, json |-> DefaultManifest]

manifestExists(w, baseCacheDir) == w.mf[baseCacheDir].present

\* The text of a manifest is JSON.stringify(manifest, null, 2): a line for
\* every brace that opens or closes a non-empty object and a line for every
\* scalar property; a property that is undefined is left out.
ManifestReadLines == 1000

SessionsLines(m) ==
    (2 + 4) * Len(m)
    + Cardinality({i \in 1..Len(m) : m[i].val.autoCleanupAfterDays # Undefined})
    + Cardinality({i \in 1..Len(m) : m[i].val.archivedAt # NoDate})

ObjectLines(m) == IF m = <<>> THEN 1 ELSE 2 + SessionsLines(m)

ManifestLines(manifest) ==
    2 + (IF manifest.activeDefined THEN ObjectLines(manifest.activeSessions) ELSE 0)
      + (IF manifest.archivedDefined THEN ObjectLines(manifest.archivedSessions) ELSE 0)
      + 1

\* readFileInternal(path, 0, 1000) returns the first 1000 lines of the file:
\* the whole text, or a text cut before its closing brace.
ReadsWhole(file) == ManifestLines(file.json) <= ManifestReadLines

\* Variant: whatever the manifest file holds is taken as the manifest.
loadSessionManifest_Lenient(w, baseCacheDir, existed) ==
    IF existed /\ w.mf[baseCacheDir].present
    THEN w.mf[baseCacheDir].json
    ELSE DefaultManifest

loadSessionManifest(w, baseCacheDir, existed) ==
    IF /\ existed
       /\ w.mf[baseCacheDir].present
       /\ w.mf[baseCacheDir].parses
       /\ ReadsWhole(w.mf[baseCacheDir])
    THEN w.mf[baseCacheDir].json
    ELSE DefaultManifest

\* Variant: the save keeps the archivedSessions found on disk.
saveSessionManifest_KeepArchived(w, baseCacheDir, manifest) ==
    IF <<baseCacheDir>> \in w.dirs
    THEN [w EXCEPT !.mf[baseCacheDir] =
             [present |-> TRUE, parses |-> TRUE,
              json |-> [manifest EXCEPT
                           !.archivedSessions = w.mf[baseCacheDir].json.archivedSessions,
                           !.archivedDefined = w.mf[baseCacheDir].json.archivedDefined]]]
    ELSE w

saveSessionManifest(w, baseCacheDir, manifest) ==
    IF <<baseCacheDir>> \in w.dirs
    THEN [w EXCEPT !.mf[baseCacheDir] =
             [present |-> TRUE, parses |-> TRUE, json |-> manifest]]
    ELSE w

\* Variant: a session-only topic gets no clean-up period.
SessionEntry_NoCleanupDays(timestamp, projectName, sessionOnly) ==
    [createdAt |-> timestamp, lastUsed |-> timestamp, projectName |-> projectName,
     autoCleanupAfterDays |-> Undefined,
     sessionOnly |-> sessionOnly, archivedAt |-> NoDate]

SessionEntry(timestamp, projectName, sessionOnly) ==
    [createdAt |-> timestamp, lastUsed |-> timestamp, projectName |-> projectName,
     autoCleanupAfterDays |-> IF sessionOnly THEN SessionOnlyCleanupDays ELSE Undefined,
     sessionOnly |-> sessionOnly, archivedAt |-> NoDate]

(***************************************************************************)
(* Cache state, arguments, tasks                                           *)
(***************************************************************************)
InitialCacheState ==
    [isInitialized |-> FALSE, cacheDir |-> DefaultBase, currentTopic |-> NoTopic,
     autoUpdateEnabled |-> FALSE, toolCallCount |-> 0,
     updateInterval |-> DefaultUpdateInterval, lastUpdate |-> Undefined,
     activeTopic |-> NoTopic, hasCreatePermission |-> FALSE,
     permissionGrantedAt |-> Undefined,
     topicAutoUpdateSettings |-> [on |-> {}, off |-> {}]]

NoSummary == [lit |-> "", n |-> 0, at |-> 0]
Summary(s) == [lit |-> s, n |-> 0, at |-> 0]
AutoSummary(n, at) ==
    [lit |-> "Auto-update triggered after N tool calls at", n |-> n, at |-> at]

NoArgs ==
    [cacheDir |-> DefaultBase, topic |-> NoTopic, projectName |-> NoName,
     confirmCreate |-> FALSE, understoodGrowth |-> FALSE, sessionOnly |-> FALSE,
     conversationSummary |-> NoSummary, projectUpdate |-> "", decisionsUpdate |-> "",
     nextStepsUpdate |-> "", useLegacy |-> FALSE, enable |-> FALSE,
     updateInterval |-> DefaultUpdateInterval, updateIntervalGiven |-> FALSE,
     confirmArchive |-> FALSE,
     confirmCleanup |-> FALSE, cleanupAfterDays |-> DefaultCleanupAfterDays,
     maxSessions |-> DefaultMaxSessions]

World == [cs |-> cacheState, dirs |-> dirs, files |-> files, mf |-> manifestFile]

NoPre == [cs |-> InitialCacheState, dirs |-> {}, files |-> <<>>,
          mf |-> [b \in Bases |-> NoManifestFile]]

Idle ==
    [op |-> "idle", args |-> NoArgs, pc |-> "idle", targetTopic |-> NoTopic,
     dir |-> <<>>, ts |-> NoDate, m |-> DefaultManifest, acc |-> <<>>,
     solo |-> TRUE, pre |-> NoPre]

NoResult ==
    [op |-> "none", args |-> NoArgs, status |-> "none", content |-> <<>>,
     solo |-> TRUE]

\* The outcome of running a handler up to its next suspension point.
Suspend(w, t) == [w |-> w, t |-> t, done |-> FALSE, status |-> "pending", content |-> <<>>]
Return(w, t, status) == [w |-> w, t |-> t, done |-> TRUE, status |-> status, content |-> <<>>]
ReturnContent(w, t, status, content) ==
    [w |-> w, t |-> t, done |-> TRUE, status |-> status, content |-> content]

\* Map<string, boolean>: the topics mapped to true and those mapped to false.
MapGet(settings, t) == t \in settings.on
MapHas(settings, t) == t \in settings.on \cup settings.off
MapSet(settings, t, v) ==
    IF v THEN [on |-> settings.on \cup {t}, off |-> settings.off \ {t}]
    ELSE [on |-> settings.on \ {t}, off |-> settings.off \cup {t}]
MapDelete(settings, t) == [on |-> settings.on \ {t}, off |-> settings.off \ {t}]

(***************************************************************************)
(* Markdown sections                                                       *)
(***************************************************************************)
InitialContent(timestamp, topic, projectName) ==
    <<[kind |-> "init", ts |-> timestamp, topic |-> topic,
       text |-> NoSummary, project |-> projectName]>>

UpdateEntry(timestamp, targetTopic, text) ==
    <<[kind |-> "update", ts |-> timestamp, topic |-> targetTopic,
       text |-> text, project |-> NoName]>>

(***************************************************************************)
(* handleUpdateCache                                                       *)
(***************************************************************************)
UpdateFinish(w, t, clock) ==
    LET cs1 == [w.cs EXCEPT !.lastUpdate = clock]
        cs2 == IF t.targetTopic # NoTopic
               THEN [cs1 EXCEPT !.activeTopic = t.targetTopic] ELSE cs1
    IN Return([w EXCEPT !.cs = cs2], t, "ok")

\* The code that follows the completion of file write number k (1 = log,
\* 2 = project state, 3 = decisions, 4 = next steps).
\* Variant: the decisions and next-steps sections depend on projectUpdate.
UpdateAfterWrite_ProjectGates(w, t, k, clock) ==
    IF k < 2 /\ t.args.projectUpdate # "" THEN Suspend(w, [t EXCEPT !.pc = "proj"])
    ELSE IF k < 3 /\ t.args.projectUpdate # "" /\ t.args.decisionsUpdate # ""
         THEN Suspend(w, [t EXCEPT !.pc = "dec"])
    ELSE IF k < 4 /\ t.args.projectUpdate # "" /\ t.args.nextStepsUpdate # ""
         THEN Suspend(w, [t EXCEPT !.pc = "next"])
    ELSE IF t.targetTopic # NoTopic
         THEN Suspend(w, [t EXCEPT !.pc =
                  IF manifestExists(w, w.cs.cacheDir) THEN "mread" ELSE "mdefault"])
         ELSE UpdateFinish(w, t, clock)

UpdateAfterWrite(w, t, k, clock) ==
    IF k < 2 /\ t.args.projectUpdate # "" THEN Suspend(w, [t EXCEPT !.pc = "proj"])
    ELSE IF k < 3 /\ t.args.decisionsUpdate # "" THEN Suspend(w, [t EXCEPT !.pc = "dec"])
    ELSE IF k < 4 /\ t.args.nextStepsUpdate # "" THEN Suspend(w, [t EXCEPT !.pc = "next"])
    ELSE IF t.targetTopic # NoTopic
         THEN Suspend(w, [t EXCEPT !.pc =
                  IF manifestExists(w, w.cs.cacheDir) THEN "mread" ELSE "mdefault"])
         ELSE UpdateFinish(w, t, clock)

\* Variant: a target topic without an entry is registered by the update.
UpdateAfterLoad_Registers(w, t, manifest, clock) ==
    LET entry == IF Has(manifest.activeSessions, t.targetTopic)
                 THEN Get(manifest.activeSessions, t.targetTopic)
                 ELSE SessionEntry(t.ts, <<t.targetTopic, "Project">>, FALSE)
        touched == [manifest EXCEPT !.activeSessions =
                       Put(@, t.targetTopic, [entry EXCEPT !.lastUsed = t.ts])]
    IN Suspend(w, [t EXCEPT !.pc = "mwrite", !.m = touched])

UpdateAfterLoad(w, t, manifest, clock) ==
    IF manifest.activeDefined /\ Has(manifest.activeSessions, t.targetTopic)
    THEN LET entry == Get(manifest.activeSessions, t.targetTopic)
             touched == [manifest EXCEPT !.activeSessions =
                            Put(@, t.targetTopic, [entry EXCEPT !.lastUsed = t.ts])]
         IN Suspend(w, [t EXCEPT !.pc = "mwrite", !.m = touched])
    ELSE UpdateFinish(w, t, clock)

\* Variant: only the explicit topic argument selects the target.
handleUpdateCacheStart_ExplicitOnly(w, t, clock) ==
    LET targetTopic == t.args.topic
        targetCacheDir == getCacheDirectory(w.cs.cacheDir, targetTopic)
        t1 == [t EXCEPT !.targetTopic = targetTopic, !.dir = targetCacheDir,
                        !.ts = toISOString(clock), !.pc = "log"]
    IN IF ~w.cs.isInitialized THEN Return(w, t, "NotInitialized")
       ELSE IF ~existsSync(w, targetCacheDir) THEN Return(w, t, "DirectoryMissing")
       ELSE Suspend(w, t1)

handleUpdateCacheStart(w, t, clock) ==
    LET targetTopic == IF t.args.topic # NoTopic THEN t.args.topic
                       ELSE w.cs.activeTopic
        targetCacheDir == getCacheDirectory(w.cs.cacheDir, targetTopic)
        t1 == [t EXCEPT !.targetTopic = targetTopic, !.dir = targetCacheDir,
                        !.ts = toISOString(clock), !.pc = "log"]
    IN IF ~w.cs.isInitialized THEN Return(w, t, "NotInitialized")
       ELSE IF ~existsSync(w, targetCacheDir) THEN Return(w, t, "DirectoryMissing")
       ELSE Suspend(w, t1)

handleUpdateCacheResume(w, t, clock) ==
    CASE t.pc = "log" ->
           UpdateAfterWrite(
               writeFile(w, join(t.dir, FileNames[1]),
                         UpdateEntry(t.ts, t.targetTopic, t.args.conversationSummary),
                         "append"), t, 1, clock)
      [] t.pc = "proj" ->
           UpdateAfterWrite(
               writeFile(w, join(t.dir, FileNames[2]),
                         UpdateEntry(t.ts, t.targetTopic, Summary(t.args.projectUpdate)),
                         "append"), t, 2, clock)
      [] t.pc = "dec" ->
           UpdateAfterWrite(
               writeFile(w, join(t.dir, FileNames[3]),
                         UpdateEntry(t.ts, t.targetTopic, Summary(t.args.decisionsUpdate)),
                         "append"), t, 3, clock)
      [] t.pc = "next" ->
           UpdateAfterWrite(
               writeFile(w, join(t.dir, FileNames[4]),
                         UpdateEntry(t.ts, t.targetTopic, Summary(t.args.nextStepsUpdate)),
                         "append"), t, 4, clock)
      [] t.pc = "mread" ->
           UpdateAfterLoad(w, t, loadSessionManifest(w, w.cs.cacheDir, TRUE), clock)
      [] t.pc = "mdefault" ->
           UpdateAfterLoad(w, t, loadSessionManifest(w, w.cs.cacheDir, FALSE), clock)
      [] t.pc = "mwrite" ->
           UpdateFinish(saveSessionManifest(w, w.cs.cacheDir, t.m), t, clock)

(***************************************************************************)
(* incrementToolCallCounter                                                *)
(***************************************************************************)
\* JavaScript remainder for a non-negative dividend: NaN (never 0) when the
\* divisor is 0, the sign of the divisor is ignored.
JsRemainderIsZero(a, b) ==
    IF b = 0 THEN FALSE ELSE a % (IF b < 0 THEN -b ELSE b) = 0

\* Variant: a topic without a setting of its own falls back to the global flag.
shouldAutoUpdate_GlobalFallback(cs) ==
    IF cs.activeTopic # NoTopic /\ MapHas(cs.topicAutoUpdateSettings, cs.activeTopic)
    THEN MapGet(cs.topicAutoUpdateSettings, cs.activeTopic)
    ELSE cs.autoUpdateEnabled

shouldAutoUpdate(cs) ==
    IF cs.activeTopic # NoTopic
    THEN MapGet(cs.topicAutoUpdateSettings, cs.activeTopic)
    ELSE cs.autoUpdateEnabled

\* Variant: the interval is not consulted.
AutoTriggers_EveryCall(cs) ==
    /\ shouldAutoUpdate(cs)
    /\ cs.isInitialized

AutoTriggers(cs) ==
    /\ shouldAutoUpdate(cs)
    /\ cs.isInitialized
    /\ JsRemainderIsZero(cs.toolCallCount, cs.updateInterval)

\* Variant: when the triggered update fails at once, the failure reaches the
\* cache state: the cache is marked as not initialised.
incrementToolCallCounter_FailureSurfaces(w, clock) ==
    LET cs1 == [w.cs EXCEPT !.toolCallCount = @ + 1]
        w1 == [w EXCEPT !.cs = cs1]
        autoUpdateArgs ==
            [NoArgs EXCEPT !.conversationSummary = AutoSummary(cs1.toolCallCount, clock),
                           !.topic = cs1.activeTopic]
        r == handleUpdateCacheStart(w1, [Idle EXCEPT !.op = "auto_update",
                                                    !.args = autoUpdateArgs], clock)
    IN [w |-> IF AutoTriggers(cs1) /\ r.done
              THEN [w1 EXCEPT !.cs.isInitialized = FALSE] ELSE w1,
        triggered |-> AutoTriggers(cs1),
        started |-> IF AutoTriggers(cs1) /\ ~r.done THEN <<r.t>> ELSE <<>>]

\* The counter after the increment, and the update tasks started by it.
incrementToolCallCounter(w, clock) ==
    LET cs1 == [w.cs EXCEPT !.toolCallCount = @ + 1]
        w1 == [w EXCEPT !.cs = cs1]
        autoUpdateArgs ==
            [NoArgs EXCEPT !.conversationSummary = AutoSummary(cs1.toolCallCount, clock),
                           !.topic = cs1.activeTopic]
        r == handleUpdateCacheStart(w1, [Idle EXCEPT !.op = "auto_update",
                                                    !.args = autoUpdateArgs], clock)
    IN [w |-> w1,
        triggered |-> AutoTriggers(cs1),
        started |-> IF AutoTriggers(cs1) /\ ~r.done THEN <<r.t>> ELSE <<>>]

(***************************************************************************)
(* checkCreatePermission and handleInitCache                               *)
(***************************************************************************)
\* Variant: one of the two flags is enough.
checkCreatePermission_EitherFlag(confirmCreate, understoodGrowth) ==
    IF ~confirmCreate /\ ~understoodGrowth THEN "PermissionRequired" ELSE "granted"

checkCreatePermission(confirmCreate, understoodGrowth) ==
    IF ~confirmCreate \/ ~understoodGrowth THEN "PermissionRequired" ELSE "granted"

defaultProjectName(args) ==
    IF args.projectName # NoName THEN args.projectName
    ELSE IF args.topic # NoTopic THEN <<args.topic, "Project">>
         ELSE <<"Unknown Project">>

\* Variant: a successful initialisation restarts the tool-call counter.
InitFinish_ResetsCount(w, t, clock) ==
    Return([w EXCEPT !.cs = [@ EXCEPT !.isInitialized = TRUE,
                                      !.cacheDir = t.args.cacheDir,
                                      !.currentTopic = t.args.topic,
                                      !.activeTopic = t.args.topic,
                                      !.hasCreatePermission = TRUE,
                                      !.permissionGrantedAt = clock,
                                      !.lastUpdate = clock,
                                      !.toolCallCount = 0]], t, "ok")

InitFinish(w, t, clock) ==
    Return([w EXCEPT !.cs = [@ EXCEPT !.isInitialized = TRUE,
                                      !.cacheDir = t.args.cacheDir,
                                      !.currentTopic = t.args.topic,
                                      !.activeTopic = t.args.topic,
                                      !.hasCreatePermission = TRUE,
                                      !.permissionGrantedAt = clock,
                                      !.lastUpdate = clock]], t, "ok")

\* After the directories exist: the timestamp is taken, then the manifest is
\* loaded (topic mode) or the first artifact is written (legacy mode).
InitAfterCreate(w, t, clock) ==
    LET t1 == [t EXCEPT !.ts = toISOString(clock)]
    IN IF t.args.topic # NoTopic
       THEN Suspend(w, [t1 EXCEPT !.pc =
                IF manifestExists(w, t.args.cacheDir) THEN "mread" ELSE "mdefault"])
       ELSE Suspend(w, [t1 EXCEPT !.pc = "w1"])

InitAfterLoad(w, t, manifest) ==
    LET registered == [manifest EXCEPT !.activeSessions =
                          Put(@, t.args.topic,
                              SessionEntry(t.ts, defaultProjectName(t.args),
                                           t.args.sessionOnly))]
    IN IF ~manifest.activeDefined THEN Return(w, t, "InitFailed")
       ELSE Suspend(w, [t EXCEPT !.pc = "mwrite", !.m = registered])

\* Variant: the artifacts are appended to, not rewritten.
InitWrite_Append(w, t, k, clock) ==
    LET w1 == writeFile(w, join(t.dir, FileNames[k]),
                        InitialContent(t.ts, t.args.topic, defaultProjectName(t.args)),
                        "append")
    IN IF k < Len(FileNames)
       THEN Suspend(w1, [t EXCEPT !.pc = <<"w1", "w2", "w3", "w4", "w5">>[k + 1]])
       ELSE InitFinish(w1, t, clock)

InitWrite(w, t, k, clock) ==
    LET w1 == writeFile(w, join(t.dir, FileNames[k]),
                        InitialContent(t.ts, t.args.topic, defaultProjectName(t.args)),
                        "rewrite")
    IN IF k < Len(FileNames)
       THEN Suspend(w1, [t EXCEPT !.pc = <<"w1", "w2", "w3", "w4", "w5">>[k + 1]])
       ELSE InitFinish(w1, t, clock)

\* Variant: the permission gate is consulted for existing directories too.
handleInitCacheStart_AlwaysGated(w, t, clock) ==
    LET actualCacheDir == getCacheDirectory(t.args.cacheDir, t.args.topic)
    IN IF checkCreatePermission(t.args.confirmCreate, t.args.understoodGrowth) # "granted"
       THEN Return(w, t, "PermissionRequired")
       ELSE Suspend(w, [t EXCEPT !.pc = "mkdir", !.dir = actualCacheDir])

handleInitCacheStart(w, t, clock) ==
    LET actualCacheDir == getCacheDirectory(t.args.cacheDir, t.args.topic)
        directoryExists == existsSync(w, actualCacheDir)
    IN IF ~directoryExists
          /\ checkCreatePermission(t.args.confirmCreate, t.args.understoodGrowth) # "granted"
       THEN Return(w, t, "PermissionRequired")
       ELSE Suspend(w, [t EXCEPT !.pc = "mkdir", !.dir = actualCacheDir])

handleInitCacheResume(w, t, clock) ==
    CASE t.pc = "mkdir" ->
           LET w1 == createDirectory(w, t.dir)
           IN IF t.args.topic # NoTopic /\ ~existsSync(w1, <<t.args.cacheDir>>)
              THEN Suspend(w1, [t EXCEPT !.pc = "mkbase"])
              ELSE InitAfterCreate(w1, t, clock)
      [] t.pc = "mkbase" ->
           InitAfterCreate(createDirectory(w, <<t.args.cacheDir>>), t, clock)
      [] t.pc = "mread" ->
           InitAfterLoad(w, t, loadSessionManifest(w, t.args.cacheDir, TRUE))
      [] t.pc = "mdefault" ->
           InitAfterLoad(w, t, loadSessionManifest(w, t.args.cacheDir, FALSE))
      [] t.pc = "mwrite" ->
           Suspend(saveSessionManifest(w, t.args.cacheDir, t.m), [t EXCEPT !.pc = "w1"])
      [] t.pc = "w1" -> InitWrite(w, t, 1, clock)
      [] t.pc = "w2" -> InitWrite(w, t, 2, clock)
      [] t.pc = "w3" -> InitWrite(w, t, 3, clock)
      [] t.pc = "w4" -> InitWrite(w, t, 4, clock)
      [] t.pc = "w5" -> InitWrite(w, t, 5, clock)

(***************************************************************************)
(* handleLoadCache                                                         *)
(***************************************************************************)
\* Object.keys(manifest.activeSessions) throws when the manifest has no
\* activeSessions: the catch falls through to the loading of the legacy
\* cache when the base directory exists.
LoadGuidance(w, t, manifest) ==
    IF ~manifest.activeDefined
    THEN IF ~existsSync(w, <<t.args.cacheDir>>) THEN Return(w, t, "NoCacheFound")
         ELSE Suspend(w, [t EXCEPT !.pc = "r1",
                                   !.dir = getCacheDirectory(t.args.cacheDir, NoTopic)])
    ELSE IF Len(manifest.activeSessions) > 0
    THEN ReturnContent(w, t, "TopicsAvailable", KeySeq(manifest.activeSessions))
    ELSE IF existsSync(w, <<t.args.cacheDir>>) THEN Return(w, t, "LegacyGuidance")
         ELSE Return(w, t, "NoCacheFound")

\* One artifact of the restored context: the content, or the inline note.
LoadedFile(w, filepath, filename) ==
    IF filepath \notin DOMAIN w.files
    THEN [file |-> filename, note |-> "Load Error", content |-> <<>>]
    ELSE IF readFile(w, filepath) = <<>>
         THEN [file |-> filename, note |-> "Not Found or Error", content |-> <<>>]
         ELSE [file |-> filename, note |-> "", content |-> readFile(w, filepath)]

\* Variant: the base directory of the session is not switched.
LoadRead_KeepsBase(w, t, k) ==
    LET acc == Append(t.acc, LoadedFile(w, join(t.dir, cacheFiles[k]), cacheFiles[k]))
    IN IF k < Len(cacheFiles)
       THEN Suspend(w, [t EXCEPT !.acc = acc, !.pc = <<"r1", "r2", "r3", "r4">>[k + 1]])
       ELSE ReturnContent(
                [w EXCEPT !.cs = [@ EXCEPT !.currentTopic = t.args.topic,
                                           !.activeTopic = t.args.topic,
                                           !.isInitialized = TRUE]],
                t, "ok", acc)

\* Variant: the first artifact that cannot be read ends the load.
LoadRead_StopsAtFailure(w, t, k) ==
    LET loaded == LoadedFile(w, join(t.dir, cacheFiles[k]), cacheFiles[k])
        acc == Append(t.acc, loaded)
    IN IF loaded.note # "" THEN Return(w, t, "LoadFailed")
       ELSE IF k < Len(cacheFiles)
       THEN Suspend(w, [t EXCEPT !.acc = acc, !.pc = <<"r1", "r2", "r3", "r4">>[k + 1]])
       ELSE ReturnContent(
                [w EXCEPT !.cs = [@ EXCEPT !.cacheDir = t.args.cacheDir,
                                           !.currentTopic = t.args.topic,
                                           !.activeTopic = t.args.topic,
                                           !.isInitialized = TRUE]],
                t, "ok", acc)

LoadRead(w, t, k) ==
    LET acc == Append(t.acc, LoadedFile(w, join(t.dir, cacheFiles[k]), cacheFiles[k]))
    IN IF k < Len(cacheFiles)
       THEN Suspend(w, [t EXCEPT !.acc = acc, !.pc = <<"r1", "r2", "r3", "r4">>[k + 1]])
       ELSE ReturnContent(
                [w EXCEPT !.cs = [@ EXCEPT !.cacheDir = t.args.cacheDir,
                                           !.currentTopic = t.args.topic,
                                           !.activeTopic = t.args.topic,
                                           !.isInitialized = TRUE]],
                t, "ok", acc)

\* Variant: only topics registered in activeSessions can be loaded.
handleLoadCacheStart_ActiveOnly(w, t, clock) ==
    LET targetCacheDir == getCacheDirectory(t.args.cacheDir, t.args.topic)
    IN IF t.args.topic = NoTopic /\ ~t.args.useLegacy
       THEN Suspend(w, [t EXCEPT !.pc =
                IF manifestExists(w, t.args.cacheDir) THEN "mread" ELSE "mdefault"])
       ELSE IF ~existsSync(w, targetCacheDir) THEN Return(w, t, "NotFound")
            ELSE IF t.args.topic # NoTopic
                    /\ ~Has(w.mf[t.args.cacheDir].json.activeSessions, t.args.topic)
                 THEN Return(w, t, "NotFound")
                 ELSE Suspend(w, [t EXCEPT !.pc = "r1", !.dir = targetCacheDir])

handleLoadCacheStart(w, t, clock) ==
    LET targetCacheDir == getCacheDirectory(t.args.cacheDir, t.args.topic)
    IN IF t.args.topic = NoTopic /\ ~t.args.useLegacy
       THEN Suspend(w, [t EXCEPT !.pc =
                IF manifestExists(w, t.args.cacheDir) THEN "mread" ELSE "mdefault"])
       ELSE IF ~existsSync(w, targetCacheDir) THEN Return(w, t, "NotFound")
            ELSE Suspend(w, [t EXCEPT !.pc = "r1", !.dir = targetCacheDir])

handleLoadCacheResume(w, t, clock) ==
    CASE t.pc = "mread" ->
           LoadGuidance(w, t, loadSessionManifest(w, t.args.cacheDir, TRUE))
      [] t.pc = "mdefault" ->
           LoadGuidance(w, t, loadSessionManifest(w, t.args.cacheDir, FALSE))
      [] t.pc = "r1" -> LoadRead(w, t, 1)
      [] t.pc = "r2" -> LoadRead(w, t, 2)
      [] t.pc = "r3" -> LoadRead(w, t, 3)
      [] t.pc = "r4" -> LoadRead(w, t, 4)

(***************************************************************************)
(* handleAutoUpdateCache                                                   *)
(***************************************************************************)
\* AutoUpdateCacheArgsSchema.safeParse: an omitted updateInterval is replaced
\* by the default of the schema.
AutoUpdateCacheArgsSchema(args) ==
    [args EXCEPT !.updateInterval =
        IF args.updateIntervalGiven THEN @ ELSE DefaultUpdateInterval]

\* Variant: the global flag always follows the call.
handleAutoUpdateCacheStart_AlwaysMirrors(w, t, clock) ==
    LET targetTopic == IF t.args.topic # NoTopic THEN t.args.topic
                       ELSE w.cs.activeTopic
        cs1 == IF targetTopic # NoTopic
               THEN [w.cs EXCEPT
                        !.topicAutoUpdateSettings = MapSet(@, targetTopic, t.args.enable),
                        !.autoUpdateEnabled = t.args.enable]
               ELSE [w.cs EXCEPT !.autoUpdateEnabled = t.args.enable]
    IN Return([w EXCEPT !.cs = cs1], [t EXCEPT !.targetTopic = targetTopic], "ok")

handleAutoUpdateCacheStart(w, t, clock) ==
    LET parsed == AutoUpdateCacheArgsSchema(t.args)
        targetTopic == IF t.args.topic # NoTopic THEN t.args.topic
                       ELSE w.cs.activeTopic
        cs1 == IF targetTopic # NoTopic
               THEN [w.cs EXCEPT
                        !.topicAutoUpdateSettings = MapSet(@, targetTopic, t.args.enable),
                        !.autoUpdateEnabled =
                            IF targetTopic = w.cs.activeTopic THEN t.args.enable ELSE @]
               ELSE [w.cs EXCEPT !.autoUpdateEnabled = t.args.enable]
        cs2 == IF parsed.updateInterval # 0
               THEN [cs1 EXCEPT !.updateInterval = parsed.updateInterval] ELSE cs1
    IN Return([w EXCEPT !.cs = cs2], [t EXCEPT !.targetTopic = targetTopic], "ok")

(***************************************************************************)
(* handleGetCacheStatus and handleGetCacheTopics                           *)
(***************************************************************************)
\* The report names the topics it found in the manifest; a manifest without
\* activeSessions is reported as "unable to load".
\* Variant: a status request for a topic makes that topic the active one.
StatusReport_SelectsTopic(w, t, manifest) ==
    IF t.args.topic # NoTopic
    THEN ReturnContent([w EXCEPT !.cs.activeTopic = t.args.topic], t, "TopicStatus",
             IF manifest.activeDefined /\ Has(manifest.activeSessions, t.args.topic)
             THEN <<t.args.topic>> ELSE <<>>)
    ELSE ReturnContent(w, t, "GlobalStatus",
             IF manifest.activeDefined THEN KeySeq(manifest.activeSessions) ELSE <<>>)

StatusReport(w, t, manifest) ==
    IF t.args.topic # NoTopic
    THEN ReturnContent(w, t, "TopicStatus",
             IF manifest.activeDefined /\ Has(manifest.activeSessions, t.args.topic)
             THEN <<t.args.topic>> ELSE <<>>)
    ELSE ReturnContent(w, t, "GlobalStatus",
             IF manifest.activeDefined THEN KeySeq(manifest.activeSessions) ELSE <<>>)

handleGetCacheStatusStart(w, t, clock) ==
    LET awaitManifest ==
            Suspend(w, [t EXCEPT !.pc =
                IF manifestExists(w, w.cs.cacheDir) THEN "mread" ELSE "mdefault"])
    IN IF t.args.topic # NoTopic
       THEN IF existsSync(w, getCacheDirectory(w.cs.cacheDir, t.args.topic))
            THEN awaitManifest
            ELSE Return(w, t, "TopicNotInitialized")
       ELSE IF ~existsSync(w, <<w.cs.cacheDir>>) THEN Return(w, t, "NoCacheFound")
            ELSE awaitManifest

handleGetCacheStatusResume(w, t, clock) ==
    StatusReport(w, t, loadSessionManifest(w, w.cs.cacheDir, t.pc = "mread"))

TopicsReport(w, t, manifest) ==
    ReturnContent(w, t, "Topics",
        IF manifest.activeDefined THEN KeySeq(manifest.activeSessions) ELSE <<>>)

handleGetCacheTopicsStart(w, t, clock) ==
    IF ~existsSync(w, <<t.args.cacheDir>>) THEN Return(w, t, "NoCacheFound")
    ELSE Suspend(w, [t EXCEPT !.pc =
             IF manifestExists(w, t.args.cacheDir) THEN "mread" ELSE "mdefault"])

handleGetCacheTopicsResume(w, t, clock) ==
    TopicsReport(w, t, loadSessionManifest(w, t.args.cacheDir, t.pc = "mread"))

(***************************************************************************)
(* handleArchiveCache                                                      *)
(***************************************************************************)
ArchiveAfterLoad(w, t, manifest, clock) ==
    IF ~manifest.activeDefined THEN Return(w, t, "ArchiveFailed")
    ELSE IF ~Has(manifest.activeSessions, t.args.topic)
    THEN Return(w, t, "NotInManifest")
    ELSE LET sessionInfo == Get(manifest.activeSessions, t.args.topic)
             archivedSessionInfo ==
                 [sessionInfo EXCEPT !.archivedAt = toISOString(clock)]
             moved == [manifest EXCEPT
                          !.archivedDefined = TRUE,
                          !.archivedSessions = Put(@, t.args.topic, archivedSessionInfo),
                          !.activeSessions = Del(@, t.args.topic)]
         IN Suspend(w, [t EXCEPT !.pc = "mwrite", !.m = moved])

\* Variant: the global auto-update flag survives the archive of the active topic.
ArchiveFinish_KeepGlobalFlag(w, t) ==
    LET cs1 == [w.cs EXCEPT !.topicAutoUpdateSettings = MapDelete(@, t.args.topic)]
        cs2 == IF cs1.activeTopic = t.args.topic
               THEN [cs1 EXCEPT !.activeTopic = NoTopic]
               ELSE cs1
    IN Return([w EXCEPT !.cs = cs2], t, "ok")

ArchiveFinish(w, t) ==
    LET cs1 == [w.cs EXCEPT !.topicAutoUpdateSettings = MapDelete(@, t.args.topic)]
        cs2 == IF cs1.activeTopic = t.args.topic
               THEN [cs1 EXCEPT !.activeTopic = NoTopic, !.autoUpdateEnabled = FALSE]
               ELSE cs1
    IN Return([w EXCEPT !.cs = cs2], t, "ok")

\* Variant: the archive does not wait for the confirmation.
handleArchiveCacheStart_Unconfirmed(w, t, clock) ==
    LET topicCacheDir == getCacheDirectory(t.args.cacheDir, t.args.topic)
    IN IF ~existsSync(w, topicCacheDir) THEN Return(w, t, "NotFound")
       ELSE Suspend(w, [t EXCEPT !.dir = topicCacheDir, !.pc =
                IF manifestExists(w, t.args.cacheDir) THEN "mread" ELSE "mdefault"])

handleArchiveCacheStart(w, t, clock) ==
    LET topicCacheDir == getCacheDirectory(t.args.cacheDir, t.args.topic)
    IN IF ~t.args.confirmArchive THEN Return(w, t, "ConfirmationRequired")
       ELSE IF ~existsSync(w, topicCacheDir) THEN Return(w, t, "NotFound")
       ELSE Suspend(w, [t EXCEPT !.dir = topicCacheDir, !.pc =
                IF manifestExists(w, t.args.cacheDir) THEN "mread" ELSE "mdefault"])

handleArchiveCacheResume(w, t, clock) ==
    CASE t.pc = "mread" ->
           ArchiveAfterLoad(w, t, loadSessionManifest(w, t.args.cacheDir, TRUE), clock)
      [] t.pc = "mdefault" ->
           ArchiveAfterLoad(w, t, loadSessionManifest(w, t.args.cacheDir, FALSE), clock)
      [] t.pc = "mwrite" ->
           ArchiveFinish(saveSessionManifest(w, t.args.cacheDir, t.m), t)

(***************************************************************************)
(* handleCleanupCache                                                      *)
(***************************************************************************)
\* Array.prototype.sort with (a, b) => b.lastUsed - a.lastUsed: a stable
\* sort, most recently used first.
RECURSIVE InsertByLastUsed(_, _)
InsertByLastUsed(sorted, e) ==
    IF sorted = <<>> THEN <<e>>
    ELSE IF getTime(Head(sorted).val.lastUsed) >= getTime(e.val.lastUsed)
         THEN <<Head(sorted)>> \o InsertByLastUsed(Tail(sorted), e)
         ELSE <<e>> \o sorted

RECURSIVE SortByLastUsed(_)
SortByLastUsed(entries) ==
    IF entries = <<>> THEN <<>>
    ELSE InsertByLastUsed(SortByLastUsed(SubSeq(entries, 1, Len(entries) - 1)),
                          entries[Len(entries)])

\* The loop's decision for the entry at (0-based) position i of the sorted
\* active sessions.
\* Variant: the count limit is off by one.
CleansUp_OffByOne(e, i, cutoffDate, maxSessions, activeTopic) ==
    LET tooOld == getTime(e.val.lastUsed) < cutoffDate
        excessCount == i > maxSessions
        isCurrentlyActive == activeTopic = e.key
    IN (tooOld \/ excessCount) /\ ~isCurrentlyActive

CleansUp(e, i, cutoffDate, maxSessions, activeTopic) ==
    LET tooOld == getTime(e.val.lastUsed) < cutoffDate
        excessCount == i >= maxSessions
        isCurrentlyActive == activeTopic = e.key
    IN (tooOld \/ excessCount) /\ ~isCurrentlyActive

CleanedTopics(manifest, cutoffDate, maxSessions, activeTopic) ==
    LET activeSessions == SortByLastUsed(manifest.activeSessions)
    IN {activeSessions[j].key : j \in
           {i \in 1..Len(activeSessions) :
               CleansUp(activeSessions[i], i - 1, cutoffDate, maxSessions, activeTopic)}}

\* Variant: the auto-update settings of the cleaned topics are kept.
CleanupAfterLoad_KeepSettings(w, t, manifest, clock) ==
    LET cutoffDate == clock - t.args.cleanupAfterDays * MsPerDay
        cleaned == CleanedTopics(manifest, cutoffDate, t.args.maxSessions,
                                 w.cs.activeTopic)
        kept == [manifest EXCEPT !.activeSessions =
                    SelectSeq(@, LAMBDA e : e.key \notin cleaned)]
    IN Suspend(w, [t EXCEPT !.pc = "mwrite", !.m = kept, !.acc = <<cleaned>>])

CleanupAfterLoad(w, t, manifest, clock) ==
    LET cutoffDate == clock - t.args.cleanupAfterDays * MsPerDay
        cleaned == CleanedTopics(manifest, cutoffDate, t.args.maxSessions,
                                 w.cs.activeTopic)
        kept == [manifest EXCEPT !.activeSessions =
                    SelectSeq(@, LAMBDA e : e.key \notin cleaned)]
        cs1 == [w.cs EXCEPT !.topicAutoUpdateSettings =
                    [on |-> @.on \ cleaned, off |-> @.off \ cleaned]]
    IN IF ~manifest.activeDefined THEN Return(w, t, "CleanupFailed")
       ELSE Suspend([w EXCEPT !.cs = cs1],
                    [t EXCEPT !.pc = "mwrite", !.m = kept,
                              !.acc = <<cleaned>>])

handleCleanupCacheStart(w, t, clock) ==
    IF ~t.args.confirmCleanup THEN Return(w, t, "ConfirmationRequired")
    ELSE IF ~existsSync(w, <<t.args.cacheDir>>) THEN Return(w, t, "NotFound")
    ELSE Suspend(w, [t EXCEPT !.pc =
             IF manifestExists(w, t.args.cacheDir) THEN "mread" ELSE "mdefault"])

handleCleanupCacheResume(w, t, clock) ==
    CASE t.pc = "mread" ->
           CleanupAfterLoad(w, t, loadSessionManifest(w, t.args.cacheDir, TRUE), clock)
      [] t.pc = "mdefault" ->
           CleanupAfterLoad(w, t, loadSessionManifest(w, t.args.cacheDir, FALSE), clock)
      [] t.pc = "mwrite" ->
           ReturnContent(saveSessionManifest(w, t.args.cacheDir, t.m), t, "ok", t.acc)

(***************************************************************************)
(* The dispatch layer (server.ts) and the scheduling of the tasks          *)
(***************************************************************************)
HandlerStart(w, t, clock) ==
    CASE t.op = "init_cache" -> handleInitCacheStart(w, t, clock)
      [] t.op = "update_cache" -> handleUpdateCacheStart(w, t, clock)
      [] t.op = "load_cache" -> handleLoadCacheStart(w, t, clock)
      [] t.op = "auto_update_cache" -> handleAutoUpdateCacheStart(w, t, clock)
      [] t.op = "get_cache_status" -> handleGetCacheStatusStart(w, t, clock)
      [] t.op = "get_cache_topics" -> handleGetCacheTopicsStart(w, t, clock)
      [] t.op = "archive_cache" -> handleArchiveCacheStart(w, t, clock)
      [] t.op = "cleanup_cache" -> handleCleanupCacheStart(w, t, clock)
      [] t.op = "other_tool" -> Return(w, t, "ok")

HandlerResume(w, t, clock) ==
    CASE t.op = "init_cache" -> handleInitCacheResume(w, t, clock)
      [] t.op = "update_cache" -> handleUpdateCacheResume(w, t, clock)
      [] t.op = "load_cache" -> handleLoadCacheResume(w, t, clock)
      [] t.op = "get_cache_status" -> handleGetCacheStatusResume(w, t, clock)
      [] t.op = "get_cache_topics" -> handleGetCacheTopicsResume(w, t, clock)
      [] t.op = "archive_cache" -> handleArchiveCacheResume(w, t, clock)
      [] t.op = "cleanup_cache" -> handleCleanupCacheResume(w, t, clock)

SetWorld(w) ==
    /\ cacheState' = w.cs
    /\ dirs' = w.dirs
    /\ files' = w.files
    /\ manifestFile' = w.mf

Outcome(r) ==
    [op |-> r.t.op, args |-> r.t.args, status |-> r.status, content |-> r.content,
     solo |-> r.t.solo]

\* What the tool-call counter does when the next request arrives.
Ticked == incrementToolCallCounter(World, now)

\* The counter is ticked for every tool but get_cache_status.
Arrives(name) ==
    IF name # "get_cache_status" THEN Ticked
    ELSE [w |-> World, triggered |-> FALSE, started |-> <<>>]

\* A request for tool `name`: the counter is ticked, then the handler runs up
\* to its first suspension point.
CallTool(name, args, limit) ==
    /\ ext.op = "idle"
    /\ cacheState.toolCallCount < limit
    /\ Len(autos) + Len(Arrives(name).started) <= MaxAutos
    /\ LET t == [Idle EXCEPT !.op = name, !.args = args,
                             !.solo = (autos \o Arrives(name).started = <<>>),
                             !.pre = Arrives(name).w]
           r == HandlerStart(Arrives(name).w, t, now)
       IN /\ SetWorld(r.w)
          /\ autos' = autos \o Arrives(name).started
          /\ ext' = IF r.done THEN Idle ELSE r.t
          /\ result' = IF r.done THEN Outcome(r) ELSE result
    /\ now' = now

\* The external operation in progress resumes after its pending call.
ExtStep ==
    /\ ext.op # "idle"
    /\ LET r == HandlerResume(World, ext, now)
       IN /\ SetWorld(r.w)
          /\ ext' = IF r.done THEN Idle ELSE r.t
          /\ result' = IF r.done THEN Outcome(r) ELSE result
    /\ UNCHANGED <<autos, now>>

\* An auto-update in flight resumes after its pending call.
AutoStep ==
    \E i \in 1..Len(autos) :
        LET r == handleUpdateCacheResume(World, autos[i], now)
        IN /\ SetWorld(r.w)
           /\ autos' = IF r.done
                       THEN SubSeq(autos, 1, i - 1) \o SubSeq(autos, i + 1, Len(autos))
                       ELSE [autos EXCEPT ![i] = r.t]
           /\ UNCHANGED <<ext, result, now>>

\* The clock.
PassMs ==
    /\ now % MsPerDay < MaxMs
    /\ now' = now + 1
    /\ UNCHANGED <<cacheState, dirs, files, manifestFile, ext, autos, result>>

\* A request served from arrival to return with nothing else running.
RECURSIVE RunToReturn(_, _)
RunToReturn(r, clock) ==
    IF r.done THEN r ELSE RunToReturn(HandlerResume(r.w, r.t, clock), clock)

RunSolo(w, name, args, clock) ==
    LET ticked == incrementToolCallCounter(w, clock).w
    IN RunToReturn(HandlerStart(ticked, [Idle EXCEPT !.op = name, !.args = args,
                                                     !.pre = ticked], clock), clock)

(***************************************************************************)
(* The tools                                                               *)
(***************************************************************************)
InitArgs(topics, flags) ==
    {[NoArgs EXCEPT !.topic = tp, !.confirmCreate = f, !.understoodGrowth = f] :
        tp \in topics, f \in flags}

UpdateArgs(topics) ==
    {[NoArgs EXCEPT !.topic = tp, !.conversationSummary = Summary("fixed bug")] :
        tp \in topics}

LoadArgs(topics, legacy) ==
    {[NoArgs EXCEPT !.topic = tp, !.useLegacy = l] : tp \in topics, l \in legacy}

AutoUpdateArgs(topics, enables, intervals) ==
    {[NoArgs EXCEPT !.topic = tp, !.enable = e, !.updateInterval = n,
                    !.updateIntervalGiven = TRUE] :
        tp \in topics, e \in enables, n \in intervals}

ArchiveArgs(topics, confirms) ==
    {[NoArgs EXCEPT !.topic = tp, !.confirmArchive = c] : tp \in topics, c \in confirms}

CleanupArgs(confirms, days, sessions) ==
    {[NoArgs EXCEPT !.confirmCleanup = c, !.cleanupAfterDays = d, !.maxSessions = n] :
        c \in confirms, d \in days, n \in sessions}

init_cache == \E a \in InitArgs(TopicArgs, BOOLEAN) : CallTool("init_cache", a, MaxCalls)
update_cache == \E a \in UpdateArgs(TopicArgs) : CallTool("update_cache", a, MaxCalls)
load_cache == \E a \in LoadArgs(TopicArgs, {TRUE}) : CallTool("load_cache", a, MaxCalls)
auto_update_cache ==
    \E a \in AutoUpdateArgs(TopicArgs, BOOLEAN, {1, 2}) :
        CallTool("auto_update_cache", a, MaxCalls)
archive_cache ==
    \E a \in ArchiveArgs(TwoTopics, {TRUE}) : CallTool("archive_cache", a, MaxCalls)
cleanup_cache ==
    \E a \in CleanupArgs({TRUE}, {1}, {1}) : CallTool("cleanup_cache", a, MaxCalls)
other_tool == CallTool("other_tool", NoArgs, MaxCalls)

InitialWorld ==
    [cs |-> InitialCacheState, dirs |-> {}, files |-> <<>>,
     mf |-> [b \in Bases |-> NoManifestFile]]

\* The process has just started and nothing is on disk.
Init ==
    /\ cacheState = InitialCacheState
    /\ dirs = {}
    /\ files = <<>>
    /\ manifestFile = [b \in Bases |-> NoManifestFile]
    /\ now = 0
    /\ ext = Idle
    /\ autos = <<>>
    /\ result = NoResult

Next ==
    \/ init_cache
    \/ update_cache
    \/ load_cache
    \/ auto_update_cache
    \/ archive_cache
    \/ cleanup_cache
    \/ other_tool
    \/ ExtStep
    \/ AutoStep
    \/ PassMs

Spec == Init /\ [][Next]_vars

(***************************************************************************)
(* Ticks only: topic "a" has been initialised and armed, then only other   *)
(* tools of the server are called.                                         *)
(***************************************************************************)
TickIntervals == {1, 2, 3}

ArmedWorld(n) ==
    LET w1 == RunSolo(InitialWorld, "init_cache",
                      [NoArgs EXCEPT !.topic = "a", !.confirmCreate = TRUE,
                                     !.understoodGrowth = TRUE], 0).w
    IN RunSolo(w1, "auto_update_cache",
               [NoArgs EXCEPT !.topic = "a", !.enable = TRUE, !.updateInterval = n,
                              !.updateIntervalGiven = TRUE], 0)

InitTicks ==
    \E n \in TickIntervals :
        /\ cacheState = ArmedWorld(n).w.cs
        /\ dirs = ArmedWorld(n).w.dirs
        /\ files = ArmedWorld(n).w.files
        /\ manifestFile = ArmedWorld(n).w.mf
        /\ now = 0
        /\ ext = Idle
        /\ autos = <<>>
        /\ result = Outcome(ArmedWorld(n))

tick_only == CallTool("other_tool", NoArgs, MaxTicks)

NextTicks ==
    \/ tick_only
    \/ AutoStep
    \/ PassMs

SpecTicks == InitTicks /\ [][NextTicks]_vars

(***************************************************************************)
(* Cleanup: the session has registered topics at different times, used    *)
(* some of them later, armed some, archived one and loaded one; then only  *)
(* cleanup_cache is called.                                                *)
(***************************************************************************)
CleanupOrders == {<<"a", "b", "c">>, <<"c", "a", "b">>, <<"b", "a">>}
CleanupTimes == {0, 1, MsPerDay + 1}
CleanupNow == MsPerDay + 1

RECURSIVE InitAll(_, _)
InitAll(w, order) ==
    IF order = <<>> THEN w
    ELSE InitAll(RunSolo(w, "init_cache",
                         [NoArgs EXCEPT !.topic = Head(order), !.confirmCreate = TRUE,
                                        !.understoodGrowth = TRUE], 0).w,
                 Tail(order))

\* update_cache at time `clock` for the topics of `order` last used then.
RECURSIVE UpdateAll(_, _, _, _)
UpdateAll(w, order, lastUsed, clock) ==
    IF order = <<>> THEN w
    ELSE UpdateAll(IF lastUsed[Head(order)] = clock
                   THEN RunSolo(w, "update_cache",
                                [NoArgs EXCEPT !.topic = Head(order),
                                    !.conversationSummary = Summary("fixed bug")],
                                clock).w
                   ELSE w,
                   Tail(order), lastUsed, clock)

RECURSIVE DisarmAll(_, _, _)
DisarmAll(w, order, disarmed) ==
    IF order = <<>> THEN w
    ELSE DisarmAll(IF Head(order) \in disarmed
                   THEN RunSolo(w, "auto_update_cache",
                                [NoArgs EXCEPT !.topic = Head(order), !.enable = FALSE],
                                CleanupNow).w
                   ELSE w,
                   Tail(order), disarmed)

UsedWorld(order, lastUsed, disarmed, archived, active) ==
    LET w1 == InitAll(InitialWorld, order)
        w2 == UpdateAll(w1, order, lastUsed, 1)
        w3 == UpdateAll(w2, order, lastUsed, MsPerDay + 1)
        w4 == DisarmAll(w3, order, disarmed)
        w5 == IF archived
              THEN RunSolo(w4, "archive_cache",
                           [NoArgs EXCEPT !.topic = order[Len(order)],
                                          !.confirmArchive = TRUE], CleanupNow).w
              ELSE w4
    IN RunSolo(w5, "load_cache",
               [NoArgs EXCEPT !.topic = active, !.useLegacy = TRUE], CleanupNow)

InitCleanup ==
    \E order \in CleanupOrders, archived \in BOOLEAN, active \in TopicArgs,
       disarmed \in {{}, {"a"}} :
       \E lastUsed \in [{order[i] : i \in 1..Len(order)} -> CleanupTimes] :
          LET r == UsedWorld(order, lastUsed, disarmed, archived, active)
          IN /\ cacheState = r.w.cs
             /\ dirs = r.w.dirs
             /\ files = r.w.files
             /\ manifestFile = r.w.mf
             /\ now = CleanupNow
             /\ ext = Idle
             /\ autos = <<>>
             /\ result = Outcome(r)

cleanup_only ==
    \E a \in CleanupArgs({TRUE}, {0, 1}, {0, 1, 2, 3}) :
        CallTool("cleanup_cache", a, MaxCleanupCalls)

NextCleanup ==
    \/ cleanup_only
    \/ ExtStep

SpecCleanup == InitCleanup /\ [][NextCleanup]_vars

(***************************************************************************)
(* Sessions in progress: nothing cached yet; topic "a" initialised and     *)
(* updated; the legacy cache initialised and updated; topic "a" armed with *)
(* an auto-update of it in flight.  From there one tool is called with     *)
(* every combination of its arguments, among calls of the other tools.     *)
(***************************************************************************)
TopicNames == {"a", "."}

FullUpdate(topic) ==
    [NoArgs EXCEPT !.topic = topic, !.conversationSummary = Summary("fixed bug"),
                   !.projectUpdate = "x", !.decisionsUpdate = "x",
                   !.nextStepsUpdate = "x"]

OtherTool(w) == RunSolo(w, "other_tool", NoArgs, 0)

FreshSeed == OtherTool(OtherTool(OtherTool(InitialWorld).w).w)

UsedSeed(topic) ==
    OtherTool(RunSolo(InitAll(InitialWorld, <<topic>>), "update_cache",
                      FullUpdate(topic), 0).w)

InFlightSeed ==
    LET tk == incrementToolCallCounter(ArmedWorld(3).w, 0)
    IN [w |-> tk.w, autos |-> tk.started,
        result |-> [NoResult EXCEPT !.op = "other_tool", !.status = "ok"]]

Seeds ==
    {[w |-> r.w, autos |-> <<>>, result |-> Outcome(r)] :
        r \in {FreshSeed, UsedSeed("a"), UsedSeed(NoTopic)}} \cup {InFlightSeed}

InitSeeded ==
    \E s \in Seeds :
        /\ cacheState = s.w.cs
        /\ dirs = s.w.dirs
        /\ files = s.w.files
        /\ manifestFile = s.w.mf
        /\ now = 0
        /\ ext = Idle
        /\ autos = s.autos
        /\ result = s.result

InitAnyArgs ==
    {[NoArgs EXCEPT !.topic = tp, !.confirmCreate = f[1], !.understoodGrowth = f[2],
                    !.sessionOnly = f[3],
                    !.projectName = IF f[3] THEN <<"P">> ELSE NoName] :
        tp \in {"a", NoTopic},
        f \in {<<FALSE, FALSE, FALSE>>, <<TRUE, FALSE, FALSE>>, <<FALSE, TRUE, FALSE>>,
               <<TRUE, TRUE, FALSE>>, <<TRUE, TRUE, TRUE>>}}

init_any == \E a \in InitAnyArgs : CallTool("init_cache", a, MaxSeededCalls)

\* A call of one of the other cache tools.
cache_tool ==
    \/ \E a \in UpdateArgs(TopicArgs) : CallTool("update_cache", a, MaxSeededCalls)
    \/ \E a \in LoadArgs(TopicArgs, {TRUE}) : CallTool("load_cache", a, MaxSeededCalls)
    \/ \E a \in AutoUpdateArgs(TopicArgs, {TRUE}, {1}) :
           CallTool("auto_update_cache", a, MaxSeededCalls)
    \/ \E a \in ArchiveArgs(TwoTopics, {TRUE}) :
           CallTool("archive_cache", a, MaxSeededCalls)
    \/ \E a \in CleanupArgs({TRUE}, {1}, {1}) :
           CallTool("cleanup_cache", a, MaxSeededCalls)

NextInit ==
    \/ init_any
    \/ cache_tool
    \/ ExtStep
    \/ AutoStep
    \/ PassMs

SpecInit == InitSeeded /\ [][NextInit]_vars

UpdateAnyArgs ==
    {[NoArgs EXCEPT !.topic = tp, !.conversationSummary = Summary("fixed bug"),
                    !.projectUpdate = o[1], !.decisionsUpdate = o[2],
                    !.nextStepsUpdate = o[3]] :
        tp \in TopicNames \cup {"b", NoTopic},
        o \in {<<"", "", "">>, <<"x", "", "">>, <<"", "x", "">>, <<"", "", "x">>,
               <<"x", "x", "x">>}}

update_any == \E a \in UpdateAnyArgs : CallTool("update_cache", a, MaxSeededCalls)

NextUpdate ==
    \/ update_any
    \/ cache_tool
    \/ ExtStep
    \/ AutoStep
    \/ PassMs

SpecUpdate == InitSeeded /\ [][NextUpdate]_vars

\* auto_update_cache with and without an updateInterval; the schema accepts
\* any number.
AutoUpdateAnyArgs ==
    AutoUpdateArgs(TopicArgs, BOOLEAN, {-2, 0, 1, 3})
        \cup {[NoArgs EXCEPT !.topic = tp, !.enable = e] :
                 tp \in TopicArgs, e \in BOOLEAN}

auto_update_any ==
    \E a \in AutoUpdateAnyArgs : CallTool("auto_update_cache", a, MaxSeededCalls)

NextAuto ==
    \/ auto_update_any
    \/ AutoStep
    \/ PassMs

SpecAuto == InitSeeded /\ [][NextAuto]_vars

(***************************************************************************)
(* Cache directories that something else has touched.  The artifacts and   *)
(* the manifest are plain files: another program or the user can remove or *)
(* empty an artifact and can replace the text of the manifest.  From such  *)
(* a directory, or from a session in progress, the reading tools are       *)
(* called, among calls of the other cache tools.                           *)
(***************************************************************************)
RemoveFiles(w, paths) ==
    [w EXCEPT !.files = [q \in DOMAIN w.files \ paths |-> w.files[q]]]

EmptyFiles(w, paths) ==
    [w EXCEPT !.files = [q \in DOMAIN w.files |->
                            IF q \in paths THEN <<>> ELSE w.files[q]]]

\* The manifest text is valid JSON without an activeSessions object: {}.
ForeignManifest == [DefaultManifest EXCEPT !.activeDefined = FALSE]

ManifestTexts == {"kept", "removed", "unparseable", "foreign"}

WithManifest(w, base, text) ==
    CASE text = "kept" -> w
      [] text = "removed" -> [w EXCEPT !.mf[base] = NoManifestFile]
      [] text = "unparseable" -> [w EXCEPT !.mf[base].parses = FALSE]
      [] text = "foreign" -> [w EXCEPT !.mf[base].json = ForeignManifest]

\* The legacy cache and topic "a" initialised, topic "a" updated.
MixedSeed ==
    RunSolo(InitAll(InitialWorld, <<NoTopic, "a">>), "update_cache", FullUpdate("a"), 0)

\* Topic "a" initialised, archived, and loaded again.
ArchivedSeed ==
    RunSolo(RunSolo(InitAll(InitialWorld, <<"a">>), "archive_cache",
                    [NoArgs EXCEPT !.topic = "a", !.confirmArchive = TRUE], 0).w,
            "load_cache", [NoArgs EXCEPT !.topic = "a"], 0)

\* Topic "a" initialised under the other base directory, then topic "a" and
\* the legacy cache under the default one.
TwoBasesSeed ==
    RunSolo(InitAll(RunSolo(InitialWorld, "init_cache",
                            [NoArgs EXCEPT !.cacheDir = OtherBase, !.topic = "a",
                                           !.confirmCreate = TRUE,
                                           !.understoodGrowth = TRUE], 0).w,
                    <<"a">>),
            "init_cache",
            [NoArgs EXCEPT !.confirmCreate = TRUE, !.understoodGrowth = TRUE], 0)

\* Topic "b" initialised, archived, and initialised again: it is recorded
\* both as an active and as an archived session.
RearchivedSeed ==
    RunSolo(RunSolo(InitAll(InitialWorld, <<"b">>), "archive_cache",
                    [NoArgs EXCEPT !.topic = "b", !.confirmArchive = TRUE], 0).w,
            "init_cache",
            [NoArgs EXCEPT !.topic = "b", !.confirmCreate = TRUE,
                           !.understoodGrowth = TRUE], 0)

\* Topic "a" initialised under both base directories, the session is using
\* the default one with auto-update enabled for "a".
SameNameSeed ==
    RunSolo(InitAll(RunSolo(InitialWorld, "init_cache",
                            [NoArgs EXCEPT !.cacheDir = OtherBase, !.topic = "a",
                                           !.confirmCreate = TRUE,
                                           !.understoodGrowth = TRUE], 0).w,
                    <<"a">>),
            "auto_update_cache",
            [NoArgs EXCEPT !.topic = "a", !.enable = TRUE], 0)

\* A new process on the disk that an earlier session left: topic "a" is
\* there, the cache state is the initial one.
RestartedWorld == [UsedSeed("a").w EXCEPT !.cs = FreshSeed.w.cs]

ArtifactPaths(topic, ks) ==
    {join(getCacheDirectory(DefaultBase, topic), cacheFiles[k]) : k \in ks}

TouchedWorlds ==
    {RemoveFiles(MixedSeed.w, ArtifactPaths("a", ks)) : ks \in SUBSET (1..Len(cacheFiles))}
    \cup {EmptyFiles(MixedSeed.w, ArtifactPaths("a", ks)) :
              ks \in SUBSET (1..Len(cacheFiles))}
    \cup {WithManifest(MixedSeed.w, DefaultBase, text) : text \in ManifestTexts}

ReadSeeds ==
    Seeds
    \cup {[w |-> r.w, autos |-> <<>>, result |-> Outcome(r)] :
              r \in {ArchivedSeed, TwoBasesSeed, SameNameSeed}}
    \cup {[w |-> w, autos |-> <<>>, result |-> Outcome(MixedSeed)] : w \in TouchedWorlds}
    \cup {[w |-> WithManifest(RearchivedSeed.w, DefaultBase, text), autos |-> <<>>,
           result |-> Outcome(RearchivedSeed)] : text \in ManifestTexts}
    \cup {[w |-> RestartedWorld, autos |-> <<>>, result |-> Outcome(FreshSeed)]}

InitRead ==
    \E s \in ReadSeeds :
        /\ cacheState = s.w.cs
        /\ dirs = s.w.dirs
        /\ files = s.w.files
        /\ manifestFile = s.w.mf
        /\ now = 0
        /\ ext = Idle
        /\ autos = s.autos
        /\ result = s.result

LoadAnyArgs ==
    {[NoArgs EXCEPT !.cacheDir = b, !.topic = tp, !.useLegacy = l] :
        b \in Bases, tp \in TopicArgs, l \in BOOLEAN}

load_any == \E a \in LoadAnyArgs : CallTool("load_cache", a, MaxSeededCalls)

get_cache_status ==
    \E tp \in TopicArgs :
        CallTool("get_cache_status", [NoArgs EXCEPT !.topic = tp], MaxSeededCalls)

get_cache_topics ==
    \E b \in Bases :
        CallTool("get_cache_topics", [NoArgs EXCEPT !.cacheDir = b], MaxSeededCalls)

\* archive_cache and cleanup_cache without the confirmation.
unconfirmed ==
    \/ \E a \in ArchiveArgs(TwoTopics, {FALSE}) :
           CallTool("archive_cache", a, MaxSeededCalls)
    \/ \E a \in CleanupArgs({FALSE}, {0}, {0}) :
           CallTool("cleanup_cache", a, MaxSeededCalls)

\* archive_cache and cleanup_cache, confirmed, for the other base directory.
elsewhere ==
    \/ \E tp \in TwoTopics :
           CallTool("archive_cache",
                    [NoArgs EXCEPT !.cacheDir = OtherBase, !.topic = tp,
                                   !.confirmArchive = TRUE], MaxSeededCalls)
    \/ CallTool("cleanup_cache",
                [NoArgs EXCEPT !.cacheDir = OtherBase, !.confirmCleanup = TRUE,
                               !.cleanupAfterDays = 0, !.maxSessions = 0],
                MaxSeededCalls)

NextRead ==
    \/ load_any
    \/ elsewhere
    \/ get_cache_status
    \/ get_cache_topics
    \/ unconfirmed
    \/ init_any
    \/ cache_tool
    \/ ExtStep
    \/ AutoStep

SpecRead == InitRead /\ [][NextRead]_vars

(***************************************************************************)
(* Auto-updates that fail.  Auto-update is enabled with interval 1, so     *)
(* that every counted request triggers an update of the active topic (or   *)
(* of the legacy cache).  The update fails at once when the target         *)
(* directory has been removed, and it fails later when a write is          *)
(* rejected by the file system.                                            *)
(***************************************************************************)
\* Directory `dir` and everything below it removed by something else.
RemoveTree(w, dir) ==
    LET below(p) == Len(dir) <= Len(p) /\ SubSeq(p, 1, Len(dir)) = dir
    IN [w EXCEPT !.dirs = {d \in @ : ~below(d)},
                 !.files = [q \in {f \in DOMAIN w.files : ~below(f)} |-> w.files[q]],
                 !.mf = [b \in Bases |-> IF dir = <<b>> THEN NoManifestFile ELSE @[b]]]

\* The cache of `topic` initialised and its auto-update enabled with
\* interval 1.
ArmedSeed(topic) ==
    RunSolo(OtherTool(InitAll(InitialWorld, <<topic>>)).w, "auto_update_cache",
            [NoArgs EXCEPT !.topic = topic, !.enable = TRUE, !.updateInterval = 1,
                           !.updateIntervalGiven = TRUE], 0)

FailSeeds ==
    {[w |-> ArmedSeed(tp).w, autos |-> <<>>, result |-> Outcome(ArmedSeed(tp))] :
        tp \in {"a", NoTopic}}
    \cup {[w |-> RemoveTree(ArmedSeed(tp).w, getCacheDirectory(DefaultBase, tp)),
           autos |-> <<>>, result |-> Outcome(ArmedSeed(tp))] : tp \in {"a", NoTopic}}

InitFail ==
    \E s \in FailSeeds :
        /\ cacheState = s.w.cs
        /\ dirs = s.w.dirs
        /\ files = s.w.files
        /\ manifestFile = s.w.mf
        /\ now = 0
        /\ ext = Idle
        /\ autos = s.autos
        /\ result = s.result

\* A write of handleUpdateCache is rejected: the handler's catch turns the
\* exception into an error response.
handleUpdateCacheFails(w, t) == Return(w, t, "UpdateFailed")

\* The pending write of an auto-update in flight is rejected.  The response
\* of the update goes to nobody.
AutoFails ==
    \E i \in 1..Len(autos) :
        /\ autos[i].pc \in {"log", "proj", "dec", "next"}
        /\ SetWorld(handleUpdateCacheFails(World, autos[i]).w)
        /\ autos' = SubSeq(autos, 1, i - 1) \o SubSeq(autos, i + 1, Len(autos))
        /\ UNCHANGED <<ext, result, now>>

seeded_other_tool == CallTool("other_tool", NoArgs, MaxSeededCalls)

NextFail ==
    \/ seeded_other_tool
    \/ get_cache_topics
    \/ init_any
    \/ cache_tool
    \/ ExtStep
    \/ AutoStep
    \/ AutoFails

SpecFail == InitFail /\ [][NextFail]_vars

(***************************************************************************)
(* Sessions that left their topic.  Topic "a" was initialised and its      *)
(* auto-update enabled with interval 1, then the legacy cache was loaded   *)
(* or initialised; or topic "a" was initialised and archived.  No request  *)
(* configures auto-update from here on: other tools are called, and        *)
(* update_cache.                                                           *)
(***************************************************************************)
RECURSIVE FinishUpdate(_, _)
FinishUpdate(r, clock) ==
    IF r.done THEN r ELSE FinishUpdate(handleUpdateCacheResume(r.w, r.t, clock), clock)

\* A request whose tick starts an auto-update, served after that update has
\* finished.
RunAfterAuto(w, name, args, clock) ==
    LET tk == incrementToolCallCounter(w, clock)
        settled == IF tk.started = <<>> THEN tk.w
                   ELSE FinishUpdate(Suspend(tk.w, tk.started[1]), clock).w
    IN RunToReturn(HandlerStart(settled, [Idle EXCEPT !.op = name, !.args = args,
                                                      !.pre = settled], clock), clock)

LegacyLoadedSeed ==
    RunAfterAuto(ArmedWorld(1).w, "load_cache", [NoArgs EXCEPT !.useLegacy = TRUE], 0)

LegacyInitSeed ==
    RunAfterAuto(ArmedWorld(1).w, "init_cache",
                 [NoArgs EXCEPT !.confirmCreate = TRUE, !.understoodGrowth = TRUE], 0)

ArchivedActiveSeed ==
    RunSolo(OtherTool(InitAll(InitialWorld, <<"a">>)).w, "archive_cache",
            [NoArgs EXCEPT !.topic = "a", !.confirmArchive = TRUE], 0)

InitLegacy ==
    \E r \in {LegacyLoadedSeed, LegacyInitSeed, ArchivedActiveSeed} :
        /\ cacheState = r.w.cs
        /\ dirs = r.w.dirs
        /\ files = r.w.files
        /\ manifestFile = r.w.mf
        /\ now = 0
        /\ ext = Idle
        /\ autos = <<>>
        /\ result = Outcome(r)

NextLegacy ==
    \/ seeded_other_tool
    \/ update_any
    \/ ExtStep
    \/ AutoStep

SpecLegacy == InitLegacy /\ [][NextLegacy]_vars

(***************************************************************************)
(* Large manifests.  A base directory holds many topics, some of them      *)
(* archived; a new process has called two other tools, and an init_cache   *)
(* of one more topic is about to save the manifest.                        *)
(***************************************************************************)
ManyTopics ==
    <<
      "t001", "t002", "t003", "t004", "t005", "t006", "t007", "t008",
      "t009", "t010", "t011", "t012", "t013", "t014", "t015", "t016",
      "t017", "t018", "t019", "t020", "t021", "t022", "t023", "t024",
      "t025", "t026", "t027", "t028", "t029", "t030", "t031", "t032",
      "t033", "t034", "t035", "t036", "t037", "t038", "t039", "t040",
      "t041", "t042", "t043", "t044", "t045", "t046", "t047", "t048",
      "t049", "t050", "t051", "t052", "t053", "t054", "t055", "t056",
      "t057", "t058", "t059", "t060", "t061", "t062", "t063", "t064",
      "t065", "t066", "t067", "t068", "t069", "t070", "t071", "t072",
      "t073", "t074", "t075", "t076", "t077", "t078", "t079", "t080",
      "t081", "t082", "t083", "t084", "t085", "t086", "t087", "t088",
      "t089", "t090", "t091", "t092", "t093", "t094", "t095", "t096",
      "t097", "t098", "t099", "t100", "t101", "t102", "t103", "t104",
      "t105", "t106", "t107", "t108", "t109", "t110", "t111", "t112",
      "t113", "t114", "t115", "t116", "t117", "t118", "t119", "t120",
      "t121", "t122", "t123", "t124", "t125", "t126", "t127", "t128",
      "t129", "t130", "t131", "t132", "t133", "t134", "t135", "t136",
      "t137", "t138", "t139", "t140", "t141", "t142", "t143", "t144",
      "t145", "t146", "t147", "t148", "t149", "t150", "t151", "t152",
      "t153", "t154", "t155", "t156", "t157", "t158", "t159", "t160",
      "t161", "t162", "t163", "t164", "t165", "t166", "t167", "t168",
      "t169", "t170", "t171", "t172", "t173", "t174", "t175", "t176",
      "t177", "t178", "t179", "t180"
    >>

MaxManifestTopics == 167
MaxArchivedTopics == 2
ManifestSizes == {1, 2, 3} \cup ((MaxManifestTopics - 2)..MaxManifestTopics)
ArchivedSizes == 0..MaxArchivedTopics

\* The manifest, the directories and the artifacts of n topics registered
\* and k more topics archived, all at time 0.
LargeManifest(n, k) ==
    [DefaultManifest EXCEPT
        !.activeSessions =
            [i \in 1..n |->
                [key |-> ManyTopics[i],
                 val |-> SessionEntry(toISOString(0), <<ManyTopics[i], "Project">>,
                                      FALSE)]],
        !.archivedSessions =
            [i \in 1..k |->
                [key |-> ManyTopics[n + i],
                 val |-> [SessionEntry(toISOString(0),
                                       <<ManyTopics[n + i], "Project">>, FALSE)
                             EXCEPT !.archivedAt = toISOString(0)]]],
        !.archivedDefined = (k > 0)]

LargeWorld(n, k) ==
    [cs |-> OtherTool(OtherTool(InitialWorld).w).w.cs,
     dirs |-> {<<DefaultBase>>} \cup {<<DefaultBase, ManyTopics[i]>> : i \in 1..(n + k)},
     files |-> [q \in {join(<<DefaultBase, ManyTopics[i]>>, FileNames[f]) :
                          i \in 1..(n + k), f \in 1..Len(FileNames)} |->
                   InitialContent(toISOString(0), q[2], <<q[2], "Project">>)],
     mf |-> [b \in Bases |->
                IF b = DefaultBase
                THEN [present |-> TRUE, parses |-> TRUE, json |-> LargeManifest(n, k)]
                ELSE NoManifestFile]]

\* The handler resumed until it is about to save the manifest.
RECURSIVE RunToSave(_, _)
RunToSave(r, clock) ==
    IF r.done \/ r.t.pc = "mwrite" THEN r
    ELSE RunToSave(HandlerResume(r.w, r.t, clock), clock)

InitManifest ==
    \E n \in ManifestSizes, k \in ArchivedSizes :
        LET ticked == incrementToolCallCounter(LargeWorld(n - 1, k), 0).w
            t == [Idle EXCEPT !.op = "init_cache",
                              !.args = [NoArgs EXCEPT !.topic = ManyTopics[n + k],
                                                      !.confirmCreate = TRUE,
                                                      !.understoodGrowth = TRUE],
                              !.pre = ticked]
            r == RunToSave(HandlerStart(ticked, t, 0), 0)
        IN /\ cacheState = r.w.cs
           /\ dirs = r.w.dirs
           /\ files = r.w.files
           /\ manifestFile = r.w.mf
           /\ now = 0
           /\ ext = r.t
           /\ autos = <<>>
           /\ result = [NoResult EXCEPT !.op = "other_tool", !.status = "ok"]

NextManifest ==
    \/ ExtStep
    \/ get_cache_topics
    \/ seeded_other_tool

SpecManifest == InitManifest /\ [][NextManifest]_vars

(***************************************************************************)
(* Initialisations that fail.  The file system rejects the write of one of *)
(* the artifacts of an init_cache in progress.                             *)
(***************************************************************************)
\* A write of handleInitCache is rejected: the handler's catch turns the
\* exception into an error response.
handleInitCacheFails(w, t) == Return(w, t, "InitFailed")

InitFails ==
    /\ ext.op = "init_cache"
    /\ ext.pc \in {"w1", "w2", "w3", "w4", "w5"}
    /\ LET r == handleInitCacheFails(World, ext)
       IN /\ SetWorld(r.w)
          /\ ext' = Idle
          /\ result' = Outcome(r)
    /\ UNCHANGED <<autos, now>>

NextInitFail ==
    \/ init_any
    \/ ExtStep
    \/ AutoStep
    \/ InitFails

SpecInitFail == InitSeeded /\ [][NextInitFail]_vars

(***************************************************************************)
(* Observations used by the properties                                     *)
(***************************************************************************)
Persisted(b) == manifestFile[b].json
ActiveKeys(b) == Keys(Persisted(b).activeSessions)
ArchivedKeys(b) == Keys(Persisted(b).archivedSessions)

\* The world the handler of the current step started from: the state right
\* after the tick of its request.
PreWorld == IF ext.op = "idle" THEN Ticked.w ELSE ext.pre

\* This step returns the result of a request for tool `name`.
Completes(name) ==
    /\ ext'.op = "idle"
    /\ result'.op = name
    /\ \/ ext.op = name
       \/ ext.op = "idle" /\ cacheState'.toolCallCount # cacheState.toolCallCount

\* This step is taken by the handler of a request for tool `name`.
HandlerStep(name) ==
    \/ ext.op = name /\ ext' # ext
    \/ /\ ext.op = "idle"
       /\ cacheState'.toolCallCount # cacheState.toolCallCount
       /\ ext'.op = name \/ (ext'.op = "idle" /\ result'.op = name)

RemoveAt(seq, i) == SubSeq(seq, 1, i - 1) \o SubSeq(seq, i + 1, Len(seq))

LogPath(b, t) == join(getCacheDirectory(b, t), FileNames[1])

IsAutoSection(sec) ==
    sec.kind = "update" /\ sec.text.lit = AutoSummary(0, 0).lit

\* This step is the arrival of a request for tool `name`: the dispatch layer
\* is idle, and the step is neither the clock's nor an auto-update's.
Dispatches(name) ==
    /\ ext.op = "idle"
    /\ now' = now
    /\ autos' = autos \/ Len(autos') > Len(autos)
    /\ \/ ext'.op = name
       \/ ext'.op = "idle" /\ result'.op = name

ToolNames ==
    {"init_cache", "update_cache", "load_cache", "auto_update_cache",
     "get_cache_status", "get_cache_topics", "archive_cache", "cleanup_cache",
     "other_tool"}

\* What load_cache returns for topic t of base b in world w.
LoadWould(w, b, t) ==
    [k \in 1..Len(cacheFiles) |->
        LoadedFile(w, join(getCacheDirectory(b, t), cacheFiles[k]), cacheFiles[k])]

(***************************************************************************)
(* C1: no topic name is a key of both activeSessions and archivedSessions  *)
(* of the persisted manifest.                                              *)
(***************************************************************************)
C1_ActiveArchivedDisjoint ==
    \A b \in Bases : ActiveKeys(b) \cap ArchivedKeys(b) = {}

(***************************************************************************)
(* C2: while a topic is only in archivedSessions (archived, no later       *)
(* init), no step makes it the session's activeTopic.                      *)
(***************************************************************************)
C2_ArchivedNeverReactivated ==
    [][\A t \in Topics :
          (/\ t \in ArchivedKeys(cacheState'.cacheDir)
           /\ t \notin ActiveKeys(cacheState'.cacheDir)
           /\ cacheState.activeTopic # t)
          => cacheState'.activeTopic # t]_vars

(***************************************************************************)
(* C3: whenever activeTopic is set to a topic, that topic is a key of      *)
(* activeSessions of the persisted manifest at that moment.                *)
(***************************************************************************)
C3_ActiveTopicRegistered ==
    [][(cacheState'.activeTopic # cacheState.activeTopic
        /\ cacheState'.activeTopic # NoTopic)
       => cacheState'.activeTopic \in
              Keys(manifestFile'[cacheState'.cacheDir].json.activeSessions)]_vars

(***************************************************************************)
(* C4: the manifest is read-modify-written without locking.  When a task   *)
(* completes its pending manifest write, the persisted manifest becomes    *)
(* the copy that task loaded and changed, whatever another writer saved in *)
(* between: the later save wins and the earlier change is lost.            *)
(***************************************************************************)
C4_LastWriterWins ==
    [][/\ \A i \in 1..Len(autos) :
             (autos[i].pc = "mwrite" /\ autos' = RemoveAt(autos, i))
             => manifestFile'[cacheState.cacheDir].json = autos[i].m
       /\ (ext.pc = "mwrite" /\ ext' # ext)
             => manifestFile'[IF ext.op = "update_cache" THEN cacheState.cacheDir
                              ELSE ext.args.cacheDir].json = ext.m]_vars

\* archive succeeded, yet the topic is active and not archived: the
\* auto-update that had loaded the manifest earlier saved last.
C4_Witness ==
    /\ ext.op = "idle"
    /\ autos = <<>>
    /\ result.op = "archive_cache"
    /\ result.status = "ok"
    /\ result.args.topic \in ActiveKeys(result.args.cacheDir)
    /\ result.args.topic \notin ArchivedKeys(result.args.cacheDir)

(***************************************************************************)
(* C5: a tick triggers an update iff, after the increment, the effective   *)
(* enablement (the per-topic flag when a topic is active, false when       *)
(* absent; the global flag otherwise) is true, the cache is initialised    *)
(* and toolCallCount mod updateInterval = 0; the update targets the active *)
(* topic, or the legacy directory when there is none.                      *)
(***************************************************************************)
C5_TickTriggersIff ==
    [][cacheState'.toolCallCount # cacheState.toolCallCount =>
        LET n == cacheState.toolCallCount + 1
            enabled == IF cacheState.activeTopic # NoTopic
                       THEN cacheState.activeTopic \in cacheState.topicAutoUpdateSettings.on
                       ELSE cacheState.autoUpdateEnabled
            fires == /\ enabled
                     /\ cacheState.isInitialized
                     /\ n % cacheState.updateInterval = 0
        IN /\ cacheState'.toolCallCount = n
           /\ IF fires
              THEN /\ Len(autos') = Len(autos) + 1
                   /\ SubSeq(autos', 1, Len(autos)) = autos
                   /\ autos'[Len(autos')].targetTopic = cacheState.activeTopic
                   /\ autos'[Len(autos')].dir =
                          getCacheDirectory(cacheState.cacheDir, cacheState.activeTopic)
                   /\ autos'[Len(autos')].args.conversationSummary.n = n
                   /\ autos'[Len(autos')].pc = "log"
              ELSE autos' = autos]_vars

C5_Witness ==
    /\ Len(autos) = 1
    /\ autos[1].pc = "log"
    /\ autos[1].targetTopic \in Topics
    /\ autos[1].args.conversationSummary.n = cacheState.toolCallCount
    /\ cacheState.updateInterval = 2

(***************************************************************************)
(* C6: with topic "a" initialised, active and armed, every run of          *)
(* updateInterval consecutive ticks triggers exactly one auto-update, and  *)
(* it appends exactly one section to the conversation log of "a".          *)
(***************************************************************************)
TicksStart == ArmedWorld(1).w.cs.toolCallCount

\* The auto-updates triggered at a count within lo..hi: their sections in
\* the log of "a", and those whose append is still pending.
TriggeredWithin(lo, hi) ==
    LET log == readFile(World, LogPath(DefaultBase, "a"))
    IN Cardinality({i \in 1..Len(log) :
                       IsAutoSection(log[i]) /\ log[i].text.n \in lo..hi})
       + Cardinality({i \in 1..Len(autos) :
                       autos[i].pc = "log"
                       /\ autos[i].args.conversationSummary.n \in lo..hi})

C6_OneUpdatePerWindow ==
    \A c \in TicksStart..(cacheState.toolCallCount - cacheState.updateInterval) :
        TriggeredWithin(c + 1, c + cacheState.updateInterval) = 1

C6_Witness ==
    /\ cacheState.updateInterval = 3
    /\ cacheState.toolCallCount = TicksStart + 4
    /\ autos = <<>>
    /\ Len(readFile(World, LogPath(DefaultBase, "a"))) = 3

(***************************************************************************)
(* Ranking of the active sessions, stated without the sort: the rank of t  *)
(* is the number of topics used more recently, ties broken by the order of *)
(* the keys in the manifest.                                               *)
(***************************************************************************)
IndexOf(m, k) == CHOOSE i \in 1..Len(m) : m[i].key = k

RankOf(m, t) ==
    Cardinality({u \in Keys(m) :
        \/ getTime(Get(m, u).lastUsed) > getTime(Get(m, t).lastUsed)
        \/ /\ getTime(Get(m, u).lastUsed) = getTime(Get(m, t).lastUsed)
           /\ IndexOf(m, u) < IndexOf(m, t)})

OlderThan(m, t, days) == getTime(Get(m, t).lastUsed) < now - days * MsPerDay

ConfirmedCleanupReturns ==
    /\ Completes("cleanup_cache")
    /\ result'.solo
    /\ result'.args.confirmCleanup
    /\ <<result'.args.cacheDir>> \in PreWorld.dirs

C10_ArchiveKeepsFiles ==
    [][/\ HandlerStep("archive_cache") => (files' = files /\ dirs' = dirs)
       /\ (Completes("archive_cache") /\ result'.solo /\ result'.status = "ok") =>
             /\ getCacheDirectory(result'.args.cacheDir, result'.args.topic) \in dirs'
             /\ LoadWould(World', result'.args.cacheDir, result'.args.topic)
                    = LoadWould(PreWorld, result'.args.cacheDir, result'.args.topic)
       /\ (Completes("load_cache") /\ result'.solo /\ result'.args.topic # NoTopic
           /\ getCacheDirectory(result'.args.cacheDir, result'.args.topic) \in PreWorld.dirs) =>
             /\ result'.status = "ok"
             /\ result'.content
                    = LoadWould(PreWorld, result'.args.cacheDir, result'.args.topic)]_vars

\* An archived topic has just been loaded and its artifacts were returned.
C10_Witness ==
    /\ ext.op = "idle"
    /\ result.op = "load_cache"
    /\ result.status = "ok"
    /\ result.solo
    /\ result.args.topic \in ArchivedKeys(result.args.cacheDir)
    /\ result.args.topic \notin ActiveKeys(result.args.cacheDir)
    /\ \A k \in 1..Len(cacheFiles) : result.content[k].content # <<>>

(***************************************************************************)
(* C11: a directory is created only by a step of an init_cache whose       *)
(* confirmCreate and understoodGrowth are both true; an init_cache whose   *)
(* directory is absent and which lacks a flag returns the permission       *)
(* message and leaves directories, files, manifest and cache state as the  *)
(* request found them.                                                     *)
(***************************************************************************)
InitDir(args) == getCacheDirectory(args.cacheDir, args.topic)

C12_ExistingDirectoryNotGated ==
    [][(Completes("init_cache") /\ InitDir(result'.args) \in PreWorld.dirs) =>
          /\ result'.status = "ok"
          /\ cacheState'.isInitialized
          /\ cacheState'.activeTopic = result'.args.topic
          /\ \A k \in 1..Len(FileNames) :
                 join(InitDir(result'.args), FileNames[k]) \in DOMAIN files'
          /\ (result'.solo /\ result'.args.topic # NoTopic) =>
                 Has(manifestFile'[result'.args.cacheDir].json.activeSessions,
                     result'.args.topic)]_vars

\* An init_cache without any flag has succeeded on an existing topic.
C12_Witness ==
    /\ ext.op = "idle"
    /\ result.op = "init_cache"
    /\ result.status = "ok"
    /\ ~result.args.confirmCreate
    /\ ~result.args.understoodGrowth
    /\ result.args.topic = "a"
    /\ cacheState.activeTopic = "a"

(***************************************************************************)
(* C13: a successful init_cache takes its timestamp when the directories   *)
(* exist; when it returns, the directory holds the five artifacts with the *)
(* content templated from that timestamp, activeSessions[topic] has        *)
(* createdAt = lastUsed = the timestamp, the project name, sessionOnly and *)
(* autoCleanupAfterDays = 7 if sessionOnly, undefined otherwise;           *)
(* activeTopic is the topic and isInitialized is true.  Without a topic    *)
(* the manifest is untouched and activeTopic is none.                      *)
(***************************************************************************)
C13_InitEstablishes ==
    [][/\ (/\ ext.op = "init_cache"
           /\ ext.pc \in {"mkdir", "mkbase"}
           /\ ext'.pc \in {"mread", "mdefault", "w1"}) =>
             ext'.ts = toISOString(now)
       /\ (Completes("init_cache") /\ result'.solo /\ result'.status = "ok") =>
             LET a == result'.args
                 name == IF a.projectName # NoName THEN a.projectName
                         ELSE IF a.topic # NoTopic THEN <<a.topic, "Project">>
                              ELSE <<"Unknown Project">>
             IN /\ InitDir(a) \in dirs'
                /\ \A k \in 1..Len(FileNames) :
                       /\ join(InitDir(a), FileNames[k]) \in DOMAIN files'
                       /\ files'[join(InitDir(a), FileNames[k])] =
                              <<[kind |-> "init", ts |-> ext.ts, topic |-> a.topic,
                                 text |-> NoSummary, project |-> name]>>
                /\ cacheState'.activeTopic = a.topic
                /\ cacheState'.isInitialized
                /\ IF a.topic = NoTopic
                   THEN manifestFile' = PreWorld.mf
                   ELSE /\ Has(manifestFile'[a.cacheDir].json.activeSessions, a.topic)
                        /\ Get(manifestFile'[a.cacheDir].json.activeSessions, a.topic) =
                               [createdAt |-> ext.ts, lastUsed |-> ext.ts,
                                projectName |-> name, sessionOnly |-> a.sessionOnly,
                                autoCleanupAfterDays |->
                                    IF a.sessionOnly THEN SessionOnlyCleanupDays
                                    ELSE Undefined,
                                archivedAt |-> NoDate]]_vars

\* A session-only topic has just been created, one millisecond after the
\* session started.
C13_Witness ==
    /\ ext.op = "idle"
    /\ result.op = "init_cache"
    /\ result.status = "ok"
    /\ result.solo
    /\ result.args.topic = "a"
    /\ result.args.sessionOnly
    /\ result.args.confirmCreate
    /\ Has(Persisted(DefaultBase).activeSessions, "a")
    /\ Get(Persisted(DefaultBase).activeSessions, "a").autoCleanupAfterDays
           = SessionOnlyCleanupDays
    /\ getTime(Get(Persisted(DefaultBase).activeSessions, "a").createdAt) = 1
    /\ cacheState.activeTopic = "a"

(***************************************************************************)
(* C14: an init_cache of a directory that already holds a cache overwrites *)
(* it: afterwards each of the four markdown artifacts is the single        *)
(* section templated by this init, no section appended by an earlier       *)
(* update survives, and createdAt and lastUsed of the topic are this       *)
(* init's timestamp.                                                       *)
(***************************************************************************)
C14_ReinitOverwrites ==
    [][(/\ Completes("init_cache") /\ result'.solo /\ result'.status = "ok"
        /\ InitDir(result'.args) \in PreWorld.dirs) =>
          LET a == result'.args
          IN /\ \A k \in 1..Len(cacheFiles) :
                    LET content == files'[join(InitDir(a), cacheFiles[k])]
                    IN /\ Len(content) = 1
                       /\ content[1].kind = "init"
                       /\ content[1].ts = ext.ts
                       /\ \A i \in 1..Len(content) : content[i].kind # "update"
             /\ a.topic # NoTopic =>
                    LET entry == Get(manifestFile'[a.cacheDir].json.activeSessions,
                                     a.topic)
                    IN entry.createdAt = ext.ts /\ entry.lastUsed = ext.ts]_vars

\* Topic "a", initialised and updated at time 0, has been initialised again
\* at time 1: its log is the new template alone.
C14_Witness ==
    /\ ext.op = "idle"
    /\ result.op = "init_cache"
    /\ result.status = "ok"
    /\ result.solo
    /\ result.args.topic = "a"
    /\ ~result.args.confirmCreate
    /\ cacheState.toolCallCount = 4
    /\ Len(readFile(World, LogPath(DefaultBase, "a"))) = 1
    /\ getTime(readFile(World, LogPath(DefaultBase, "a"))[1].ts) = 1
    /\ getTime(Get(Persisted(DefaultBase).activeSessions, "a").createdAt) = 1

(***************************************************************************)
(* The target of an update_cache: the topic argument, else the active      *)
(* topic, else the legacy directory.                                       *)
(***************************************************************************)
UpdateTarget(pre, a) == IF a.topic # NoTopic THEN a.topic ELSE pre.cs.activeTopic

UpdateDir(pre, a) == getCacheDirectory(pre.cs.cacheDir, UpdateTarget(pre, a))

IsPrefix(old, new) == Len(old) <= Len(new) /\ SubSeq(new, 1, Len(old)) = old

(***************************************************************************)
(* C15: update_cache fails with NotInitialized when isInitialized is       *)
(* false, and with DirectoryMissing when the directory of its target (the  *)
(* topic argument, else the active topic, else the legacy directory) does  *)
(* not exist; a failed update leaves files, manifest and cache state as    *)
(* the request found them; otherwise it succeeds and the conversation log  *)
(* of that target has grown.                                               *)
(***************************************************************************)
C15_UpdateFailsClean ==
    [][Completes("update_cache") =>
        LET pre == PreWorld
            a == result'.args
            log == join(UpdateDir(pre, a), FileNames[1])
        IN IF ~pre.cs.isInitialized
           THEN result'.status = "NotInitialized" /\ World' = pre
           ELSE IF UpdateDir(pre, a) \notin pre.dirs
                THEN result'.status = "DirectoryMissing" /\ World' = pre
                ELSE /\ result'.status = "ok"
                     /\ Len(readFile(World', log)) > Len(readFile(pre, log))]_vars

\* An update of a topic that was never initialised has just failed, in a
\* session whose active topic is another one.
C15_Witness ==
    /\ ext.op = "idle"
    /\ result.op = "update_cache"
    /\ result.status = "DirectoryMissing"
    /\ result.args.topic = "b"
    /\ cacheState.isInitialized
    /\ cacheState.activeTopic = "a"
    /\ <<DefaultBase, "b">> \notin dirs

(***************************************************************************)
(* C16: no step other than a step of init_cache shortens or changes what a *)
(* file already holds; a successful update appends exactly one section to  *)
(* the conversation log of its target and exactly one to each of project   *)
(* state, decisions and next steps whose input is non-empty, and nothing   *)
(* to any other file.                                                      *)
(***************************************************************************)
UpdateInputs(a) ==
    <<a.conversationSummary, Summary(a.projectUpdate), Summary(a.decisionsUpdate),
      Summary(a.nextStepsUpdate)>>

C16_UpdateAppends ==
    [][/\ ext.op # "init_cache" =>
             \A q \in DOMAIN files :
                 q \in DOMAIN files' /\ IsPrefix(files[q], files'[q])
       /\ (Completes("update_cache") /\ result'.solo /\ result'.status = "ok") =>
             LET pre == PreWorld
                 a == result'.args
                 paths == {join(UpdateDir(pre, a), cacheFiles[k]) : k \in 1..Len(cacheFiles)}
             IN /\ \A k \in 1..Len(cacheFiles) :
                       readFile(World', join(UpdateDir(pre, a), cacheFiles[k])) =
                           readFile(pre, join(UpdateDir(pre, a), cacheFiles[k])) \o
                           (IF k = 1 \/ UpdateInputs(a)[k].lit # ""
                            THEN <<[kind |-> "update", ts |-> ext.ts,
                                    topic |-> UpdateTarget(pre, a),
                                    text |-> UpdateInputs(a)[k], project |-> NoName]>>
                            ELSE <<>>)
                /\ \A q \in (DOMAIN files' \cup DOMAIN pre.files) \ paths :
                       readFile(World', q) = readFile(pre, q)]_vars

\* The same update has been applied twice to topic "a": its decisions file
\* holds two identical sections after the template.
C16_Witness ==
    /\ ext.op = "idle"
    /\ result.op = "update_cache"
    /\ result.status = "ok"
    /\ result.solo
    /\ result.args.topic = "a"
    /\ result.args.projectUpdate = ""
    /\ result.args.decisionsUpdate = "x"
    /\ Len(readFile(World, <<DefaultBase, "a", "decisions_made.md">>)) = 3
    /\ readFile(World, <<DefaultBase, "a", "decisions_made.md">>)[2]
           = readFile(World, <<DefaultBase, "a", "decisions_made.md">>)[3]
    /\ Len(readFile(World, <<DefaultBase, "a", "current_project_state.md">>)) = 2

(***************************************************************************)
(* C17: a step of an init_cache, update_cache or auto-update whose target  *)
(* is topic t changes no artifact of any other topic and no legacy         *)
(* artifact directly under the base directory.                             *)
(***************************************************************************)
ArtifactsOf(w, base, u) ==
    [k \in 1..Len(FileNames) |->
        readFile(w, join(getCacheDirectory(base, u), FileNames[k]))]

OthersKept(base, t) ==
    t # NoTopic =>
        \A u \in (Topics \cup TopicNames \cup {NoTopic}) \ {t} :
            ArtifactsOf(World', base, u) = ArtifactsOf(World, base, u)

C17_TopicIsolation ==
    [][/\ (ext.op = "init_cache" /\ ext' # ext)
             => OthersKept(ext.args.cacheDir, ext.args.topic)
       /\ (ext.op = "update_cache" /\ ext' # ext)
             => OthersKept(cacheState.cacheDir, ext.targetTopic)
       /\ \A i \in 1..Len(autos) :
             (ext' = ext /\ now' = now /\ autos' # autos
              /\ \A j \in 1..Len(autos) \ {i} : j <= Len(autos') /\ autos'[j] = autos[j])
                 => OthersKept(cacheState.cacheDir, autos[i].targetTopic)]_vars

(***************************************************************************)
(* C18 as stated: when an update of topic t saves the manifest, lastUsed   *)
(* of t is the timestamp of that update and is not earlier than the value  *)
(* it replaces.                                                            *)
(***************************************************************************)
LastUsedAdvances(task) ==
    LET before == manifestFile[cacheState.cacheDir].json.activeSessions
        after == manifestFile'[cacheState.cacheDir].json.activeSessions
    IN /\ Has(after, task.targetTopic)
       /\ Get(after, task.targetTopic).lastUsed = task.ts
       /\ Has(before, task.targetTopic) =>
              getTime(Get(after, task.targetTopic).lastUsed)
                  >= getTime(Get(before, task.targetTopic).lastUsed)

C18_LastUsedAdvances ==
    [][/\ (ext.op = "update_cache" /\ ext.pc = "mwrite" /\ ext' # ext)
             => LastUsedAdvances(ext)
       /\ \A i \in 1..Len(autos) :
             (autos[i].pc = "mwrite" /\ autos' = RemoveAt(autos, i) /\ ext' = ext)
                 => LastUsedAdvances(autos[i])]_vars

(***************************************************************************)
(* C18 amended: when an update of topic t saves the manifest, lastUsed of  *)
(* t is the timestamp the update took when it started.  When the update    *)
(* ran with no other update in flight and t has a manifest entry, the      *)
(* manifest differs from the one the request found in lastUsed of t only,  *)
(* which is not earlier than before; when t has no entry the manifest is   *)
(* unchanged.                                                              *)
(***************************************************************************)
C18_LastUsedIsTimestamp ==
    [][/\ (ext.op = "update_cache" /\ ext.pc = "mwrite" /\ ext' # ext) =>
             /\ Has(manifestFile'[cacheState.cacheDir].json.activeSessions,
                    ext.targetTopic)
             /\ Get(manifestFile'[cacheState.cacheDir].json.activeSessions,
                    ext.targetTopic).lastUsed = ext.ts
       /\ \A i \in 1..Len(autos) :
             (autos[i].pc = "mwrite" /\ autos' = RemoveAt(autos, i) /\ ext' = ext) =>
                 /\ Has(manifestFile'[cacheState.cacheDir].json.activeSessions,
                        autos[i].targetTopic)
                 /\ Get(manifestFile'[cacheState.cacheDir].json.activeSessions,
                        autos[i].targetTopic).lastUsed = autos[i].ts
       /\ (Completes("update_cache") /\ result'.solo /\ result'.status = "ok") =>
             LET pre == PreWorld
                 t == UpdateTarget(pre, result'.args)
                 before == pre.mf[pre.cs.cacheDir].json
             IN IF t # NoTopic /\ Has(before.activeSessions, t)
                THEN /\ manifestFile' =
                           [pre.mf EXCEPT ![pre.cs.cacheDir].json.activeSessions =
                               [i \in 1..Len(@) |->
                                   IF @[i].key = t
                                   THEN [@[i] EXCEPT !.val.lastUsed = ext.ts]
                                   ELSE @[i]]]
                     /\ getTime(ext.ts) >= getTime(Get(before.activeSessions, t).lastUsed)
                     /\ getTime(ext.ts) <= now
                ELSE manifestFile' = pre.mf]_vars

\* Topic "a", created at time 0, has just been updated at time 1.
C18_Witness ==
    /\ ext.op = "idle"
    /\ result.op = "update_cache"
    /\ result.status = "ok"
    /\ result.solo
    /\ result.args.topic = NoTopic
    /\ cacheState.activeTopic = "a"
    /\ getTime(Get(Persisted(DefaultBase).activeSessions, "a").lastUsed) = 1
    /\ getTime(Get(Persisted(DefaultBase).activeSessions, "a").createdAt) = 0

(***************************************************************************)
(* C19: auto_update_cache with target topic t (the topic argument, else    *)
(* the active topic) sets the per-topic flag of t to `enable`, leaves the  *)
(* flag of every other topic as it was, and changes the global flag (to    *)
(* `enable`) only when t is the active topic; without a target it sets the *)
(* global flag only.                                                       *)
(***************************************************************************)
C19_AutoUpdateFlags ==
    [][Completes("auto_update_cache") =>
        LET pre == PreWorld.cs
            a == result'.args
            t == IF a.topic # NoTopic THEN a.topic ELSE pre.activeTopic
            old == pre.topicAutoUpdateSettings
            new == cacheState'.topicAutoUpdateSettings
        IN IF t # NoTopic
           THEN /\ MapHas(new, t)
                /\ MapGet(new, t) = a.enable
                /\ \A u \in (Topics \cup TopicNames) \ {t} :
                       /\ MapHas(new, u) = MapHas(old, u)
                       /\ MapGet(new, u) = MapGet(old, u)
                /\ cacheState'.autoUpdateEnabled =
                       IF t = pre.activeTopic THEN a.enable ELSE pre.autoUpdateEnabled
           ELSE /\ cacheState'.autoUpdateEnabled = a.enable
                /\ new = old]_vars

\* Auto-update has been enabled for topic "b" while "a" is the active topic:
\* the global flag is still off and the flag of "a" is as it was.
C19_Witness ==
    /\ ext.op = "idle"
    /\ result.op = "auto_update_cache"
    /\ result.args.topic = "b"
    /\ result.args.enable
    /\ cacheState.activeTopic = "a"
    /\ ~cacheState.autoUpdateEnabled
    /\ cacheState.topicAutoUpdateSettings = [on |-> {"b"}, off |-> {}]

(***************************************************************************)
(* C20: an auto_update_cache that supplies updateInterval sets the shared  *)
(* interval to it; one that does not supply it leaves the interval as it   *)
(* was.                                                                    *)
(***************************************************************************)
C20_OmittedIntervalKept ==
    [][Completes("auto_update_cache") =>
        cacheState'.updateInterval =
            IF result'.args.updateIntervalGiven THEN result'.args.updateInterval
            ELSE PreWorld.cs.updateInterval]_vars

(***************************************************************************)
(* C21: the shared updateInterval is greater than 0 in every reachable     *)
(* state, whatever number auto_update_cache was given.                     *)
(***************************************************************************)
C21_IntervalPositive == cacheState.updateInterval > 0

C23_EveryDispatchTicks ==
    [][(\E name \in ToolNames : Dispatches(name)) =>
          cacheState'.toolCallCount = cacheState.toolCallCount + 1]_vars

(***************************************************************************)
(* C24: a load_cache without a topic and without useLegacy never reads an  *)
(* artifact, returns one of the guidance messages and leaves the cache     *)
(* state as it is, whatever the manifest and the directories hold.         *)
(***************************************************************************)
C24_DiscoveryLoadsNothing ==
    [][(/\ ext.op = "load_cache"
        /\ ext.args.topic = NoTopic
        /\ ~ext.args.useLegacy
        /\ ext' # ext) =>
          /\ ext'.pc \notin {"r1", "r2", "r3", "r4"}
          /\ cacheState' = cacheState
          /\ ext'.op = "idle" =>
                 result'.status \in {"TopicsAvailable", "LegacyGuidance", "NoCacheFound"}]_vars

(***************************************************************************)
(* C25: a load_cache of a topic, or of the legacy cache with useLegacy,    *)
(* fails with NotFound and changes nothing when the directory is absent;   *)
(* otherwise it succeeds and sets activeTopic to the topic (none in legacy *)
(* mode), isInitialized to true and the base directory to the one given.   *)
(* No step of a load changes a file, a directory or the manifest.          *)
(***************************************************************************)
C25_LoadSetsState ==
    [][/\ (Dispatches("load_cache") \/ (ext.op = "load_cache" /\ ext' # ext)) =>
             /\ files' = files
             /\ dirs' = dirs
             /\ manifestFile' = manifestFile
       /\ (/\ Completes("load_cache")
           /\ result'.args.topic # NoTopic \/ result'.args.useLegacy) =>
             LET a == result'.args
             IN IF getCacheDirectory(a.cacheDir, a.topic) \notin PreWorld.dirs
                THEN result'.status = "NotFound" /\ World' = PreWorld
                ELSE /\ result'.status = "ok"
                     /\ cacheState'.activeTopic = a.topic
                     /\ cacheState'.isInitialized
                     /\ cacheState'.cacheDir = a.cacheDir]_vars

\* Topic "a" of the other base directory has been loaded in a session that
\* was using the default one.
C25_Witness ==
    /\ ext.op = "idle"
    /\ result.op = "load_cache"
    /\ result.status = "ok"
    /\ result.args.cacheDir = OtherBase
    /\ result.args.topic = "a"
    /\ cacheState.cacheDir = OtherBase
    /\ cacheState.activeTopic = "a"
    /\ <<DefaultBase>> \in dirs

(***************************************************************************)
(* C26: a load_cache whose directory exists succeeds whichever of the four *)
(* artifacts are missing or empty: each of them is reported by a note in   *)
(* its place, every other artifact is returned with its content, and the   *)
(* cache state is set.                                                     *)
(***************************************************************************)
C26_LoadIsolatesFailures ==
    [][(/\ Completes("load_cache")
        /\ result'.solo
        /\ result'.args.topic # NoTopic \/ result'.args.useLegacy
        /\ getCacheDirectory(result'.args.cacheDir, result'.args.topic)
               \in PreWorld.dirs) =>
          LET a == result'.args
              path(k) == join(getCacheDirectory(a.cacheDir, a.topic), cacheFiles[k])
          IN /\ result'.status = "ok"
             /\ Len(result'.content) = Len(cacheFiles)
             /\ \A k \in 1..Len(cacheFiles) :
                    /\ result'.content[k].file = cacheFiles[k]
                    /\ IF path(k) \notin DOMAIN files \/ files[path(k)] = <<>>
                       THEN /\ result'.content[k].note # ""
                            /\ result'.content[k].content = <<>>
                       ELSE /\ result'.content[k].note = ""
                            /\ result'.content[k].content = files[path(k)]
             /\ cacheState'.activeTopic = a.topic
             /\ cacheState'.isInitialized]_vars

\* Topic "a" has been loaded although none of its four artifacts could be
\* read.
C26_Witness ==
    /\ ext.op = "idle"
    /\ result.op = "load_cache"
    /\ result.status = "ok"
    /\ result.solo
    /\ result.args.topic = "a"
    /\ \A k \in 1..Len(cacheFiles) : result.content[k].note = "Load Error"
    /\ cacheState.activeTopic = "a"
    /\ cacheState.isInitialized

(***************************************************************************)
(* C27: get_cache_status, for a topic or global, and get_cache_topics are  *)
(* read-only: no step of their handlers changes a field of the cache       *)
(* state, the manifest, a file or a directory.  (The request for           *)
(* get_cache_topics is counted by the dispatch layer before its handler    *)
(* runs; the handler itself does not touch the counter.)                   *)
(***************************************************************************)
C27_StatusAndTopicsReadOnly ==
    [][/\ Dispatches("get_cache_status") => World' = World
       /\ Dispatches("get_cache_topics") => World' = Ticked.w
       /\ (/\ ext.op \in {"get_cache_status", "get_cache_topics"}
           /\ ext' # ext) => World' = World]_vars

\* The status of the registered topic "a" has been reported while another
\* topic, or none, was the active one.
C27_Witness ==
    /\ ext.op = "idle"
    /\ result.op = "get_cache_status"
    /\ result.status = "TopicStatus"
    /\ result.args.topic = "a"
    /\ Len(result.content) = 1
    /\ cacheState.activeTopic # "a"

(***************************************************************************)
(* C28: archive_cache without confirmArchive and cleanup_cache without     *)
(* confirmCleanup return the instructions at once and change nothing: the  *)
(* manifest, the files, the directories and every field of the cache       *)
(* state but the counter of the dispatch layer stay as they were, for      *)
(* every topic and manifest.                                               *)
(***************************************************************************)
C28_UnconfirmedChangesNothing ==
    [][/\ (Dispatches("archive_cache") /\ ext'.op = "archive_cache") =>
             ext'.args.confirmArchive
       /\ (Dispatches("cleanup_cache") /\ ext'.op = "cleanup_cache") =>
             ext'.args.confirmCleanup
       /\ (\/ Completes("archive_cache") /\ ~result'.args.confirmArchive
           \/ Completes("cleanup_cache") /\ ~result'.args.confirmCleanup) =>
             /\ result'.status = "ConfirmationRequired"
             /\ cacheState' = [cacheState EXCEPT !.toolCallCount = @ + 1]
             /\ manifestFile' = manifestFile
             /\ files' = files
             /\ dirs' = dirs]_vars

\* An unconfirmed archive of the registered topic "a" has been answered by
\* the instructions, and the topic is still registered.
C28_Witness ==
    /\ ext.op = "idle"
    /\ result.op = "archive_cache"
    /\ result.status = "ConfirmationRequired"
    /\ result.args.topic = "a"
    /\ ~result.args.confirmArchive
    /\ "a" \in ActiveKeys(result.args.cacheDir)
    /\ <<result.args.cacheDir, "a">> \in dirs

(***************************************************************************)
(* C29: loading the manifest never fails.  When the manifest file is       *)
(* missing or does not parse, the caller gets an empty manifest and no     *)
(* error: get_cache_topics lists no topic, and an init_cache of a topic    *)
(* succeeds and saves a manifest whose only active session is that topic   *)
(* and which has no archived sessions, so that the sessions recorded       *)
(* before are gone.                                                        *)
(***************************************************************************)
C29_UnreadableManifestIsEmpty ==
    [][LET a == result'.args
           before == PreWorld.mf[a.cacheDir]
           unreadable == ~before.present \/ ~before.parses
       IN /\ (/\ Completes("init_cache")
              /\ result'.solo
              /\ a.topic # NoTopic
              /\ result'.status # "PermissionRequired"
              /\ unreadable) =>
                /\ result'.status = "ok"
                /\ manifestFile'[a.cacheDir].present
                /\ manifestFile'[a.cacheDir].parses
                /\ Keys(manifestFile'[a.cacheDir].json.activeSessions) = {a.topic}
                /\ ~manifestFile'[a.cacheDir].json.archivedDefined
                /\ manifestFile'[a.cacheDir].json.archivedSessions = <<>>
          /\ (/\ Completes("get_cache_topics")
              /\ <<a.cacheDir>> \in PreWorld.dirs
              /\ unreadable) =>
                /\ result'.status = "Topics"
                /\ result'.content = <<>>]_vars

\* Topic "a" has been initialised next to topic "b", whose records were in
\* a manifest that could not be read: the manifest now holds "a" alone.
C29_Witness ==
    /\ ext.op = "idle"
    /\ result.op = "init_cache"
    /\ result.status = "ok"
    /\ result.args.topic = "a"
    /\ <<DefaultBase, "b">> \in dirs
    /\ manifestFile[DefaultBase].parses
    /\ ActiveKeys(DefaultBase) = {"a"}
    /\ ArchivedKeys(DefaultBase) = {}

(***************************************************************************)
(* C30: a failure of the auto-update triggered by the tick is never        *)
(* propagated.  When the triggered update fails at once (the cache is not  *)
(* initialised or the target directory is missing), the request that       *)
(* caused the tick is handled exactly as it would be from the same state   *)
(* with the counter incremented and no update triggered, and it returns    *)
(* the result it would then return; when a write of an update in flight    *)
(* is rejected, the cache state, the files, the request in progress and    *)
(* the last result are unchanged.                                          *)
(***************************************************************************)
C30_AutoFailureNotPropagated ==
    [][/\ \A name \in ToolNames \ {"get_cache_status"} :
             (/\ Dispatches(name)
              /\ Ticked.triggered
              /\ Ticked.started = <<>>) =>
                LET counted == [World EXCEPT !.cs.toolCallCount = @ + 1]
                    args == IF ext'.op = name THEN ext'.args ELSE result'.args
                    r == HandlerStart(counted,
                                      [Idle EXCEPT !.op = name, !.args = args,
                                                   !.solo = (autos = <<>>),
                                                   !.pre = counted], now)
                IN /\ World' = r.w
                   /\ autos' = autos
                   /\ ext' = IF r.done THEN Idle ELSE r.t
                   /\ r.done => result' = Outcome(r)
       /\ \A name \in ToolNames \ {"get_cache_status"} :
             (/\ Completes(name)
              /\ result'.solo
              /\ AutoTriggers(PreWorld.cs)) =>
                LET counted == [PreWorld EXCEPT !.cs.toolCallCount = @ - 1]
                    r == RunSolo(counted, name, result'.args, now)
                IN /\ result' = Outcome(r)
                   /\ World' = r.w
       /\ (Len(autos') < Len(autos) /\ World' = World) =>
             /\ ext' = ext
             /\ result' = result]_vars

\* A load of the legacy cache has succeeded although the update that its
\* tick triggered found the directory of the active topic "a" removed.
C30_Witness ==
    /\ ext.op = "idle"
    /\ result.op = "load_cache"
    /\ result.status = "ok"
    /\ result.args.useLegacy
    /\ result.solo
    /\ autos = <<>>
    /\ shouldAutoUpdate(cacheState)
    /\ cacheState.updateInterval = 1
    /\ cacheState.toolCallCount = 4
    /\ <<DefaultBase, "a">> \notin dirs

(***************************************************************************)
(* C31: the two permission flags of init_cache count as true when they are *)
(* omitted: an init_cache given a topic and nothing else, for a directory  *)
(* that does not exist, creates the directory and initialises the topic.   *)
(***************************************************************************)
C31_OmittedFlagsGrant ==
    [][(/\ Completes("init_cache")
        /\ result'.args.topic # NoTopic
        /\ result'.args = [NoArgs EXCEPT !.topic = result'.args.topic]
        /\ getCacheDirectory(result'.args.cacheDir, result'.args.topic)
               \notin PreWorld.dirs) =>
          /\ result'.status = "ok"
          /\ getCacheDirectory(result'.args.cacheDir, result'.args.topic) \in dirs'
          /\ cacheState'.isInitialized
          /\ cacheState'.activeTopic = result'.args.topic]_vars

(***************************************************************************)
(* C32: the active topic is changed by external requests only.  A step of  *)
(* an auto-update in flight, its completion included, leaves activeTopic   *)
(* as the last completed request (a load, an init, an archive of the       *)
(* active topic) has set it.                                               *)
(***************************************************************************)
C32_AutoUpdateKeepsActiveTopic ==
    [][(autos' # autos /\ ext' = ext /\ result' = result) =>
          cacheState'.activeTopic = cacheState.activeTopic]_vars

(***************************************************************************)
(* C33: an update_cache with an explicit topic that is not the active one  *)
(* writes to the directory of that topic and leaves activeTopic as it was. *)
(***************************************************************************)
C33_ExplicitTopicKeepsActive ==
    [][(/\ Completes("update_cache")
        /\ result'.solo
        /\ result'.status = "ok"
        /\ result'.args.topic # NoTopic
        /\ result'.args.topic # PreWorld.cs.activeTopic) =>
          cacheState'.activeTopic = PreWorld.cs.activeTopic]_vars

(***************************************************************************)
(* C34: auto-updates are written to the legacy cache only when auto-update *)
(* was enabled by a request that had no target topic.  In a session where  *)
(* it was enabled for topic "a" only, and the legacy cache was loaded or   *)
(* initialised afterwards, no step of an auto-update changes the legacy    *)
(* conversation log.                                                       *)
(***************************************************************************)
C34_LegacyLogNotAutoUpdated ==
    [][(autos' # autos /\ ext' = ext /\ result' = result) =>
          LET legacyLog == join(<<cacheState.cacheDir>>, FileNames[1])
          IN /\ (legacyLog \in DOMAIN files') = (legacyLog \in DOMAIN files)
             /\ legacyLog \in DOMAIN files => files'[legacyLog] = files[legacyLog]]_vars

(***************************************************************************)
(* C35: an update_cache without a topic writes to the files directly under *)
(* the base directory only when the session was last initialised or loaded *)
(* in legacy mode.  After an archive of the active topic, which clears     *)
(* activeTopic and leaves isInitialized true, it does not.                 *)
(***************************************************************************)
C35_TopiclessUpdateAfterArchive ==
    [][(/\ Completes("update_cache")
        /\ result'.solo
        /\ result'.args.topic = NoTopic
        /\ PreWorld.cs.activeTopic = NoTopic
        /\ PreWorld.cs.currentTopic # NoTopic) =>
          \A k \in 1..Len(FileNames) :
              LET p == join(<<PreWorld.cs.cacheDir>>, FileNames[k])
              IN /\ (p \in DOMAIN files') = (p \in DOMAIN PreWorld.files)
                 /\ p \in DOMAIN files' => files'[p] = PreWorld.files[p]]_vars

(***************************************************************************)
(* C36: hasCreatePermission becomes true only by an init_cache called with *)
(* confirmCreate and understoodGrowth both true.  An init_cache with one   *)
(* of the flags false, which passes because its directory exists, leaves   *)
(* hasCreatePermission and permissionGrantedAt as they were.               *)
(***************************************************************************)
C36_PermissionOnlyWhenGranted ==
    [][/\ (cacheState'.hasCreatePermission /\ ~cacheState.hasCreatePermission) =>
             /\ Completes("init_cache")
             /\ result'.args.confirmCreate
             /\ result'.args.understoodGrowth
       /\ (/\ Completes("init_cache")
           /\ ~(result'.args.confirmCreate /\ result'.args.understoodGrowth)) =>
             /\ cacheState'.hasCreatePermission = cacheState.hasCreatePermission
             /\ cacheState'.permissionGrantedAt = cacheState.permissionGrantedAt]_vars

(***************************************************************************)
(* C37: archive_cache and cleanup_cache for a base directory other than    *)
(* the one of the session touch the manifest of that directory only.  The  *)
(* active topic, the global and the per-topic auto-update flags of the     *)
(* session stay as they were, and a topic of the session's own directory   *)
(* that has the same name and is active does not protect the topic of the  *)
(* other directory from the cleanup.                                       *)
(***************************************************************************)
C37_OtherBaseLeavesSession ==
    [][(/\ Completes("archive_cache") \/ Completes("cleanup_cache")
        /\ result'.solo
        /\ result'.status = "ok"
        /\ result'.args.cacheDir # PreWorld.cs.cacheDir) =>
          /\ cacheState'.activeTopic = PreWorld.cs.activeTopic
          /\ cacheState'.autoUpdateEnabled = PreWorld.cs.autoUpdateEnabled
          /\ cacheState'.topicAutoUpdateSettings = PreWorld.cs.topicAutoUpdateSettings
          /\ manifestFile'[PreWorld.cs.cacheDir] = PreWorld.mf[PreWorld.cs.cacheDir]
          /\ (result'.op = "cleanup_cache" /\ result'.args.maxSessions = 0) =>
                 Keys(manifestFile'[result'.args.cacheDir].json.activeSessions) = {}]_vars

(***************************************************************************)
(* C38: a manifest that has been saved is loaded back as it was saved,     *)
(* whatever the number of its active and archived topics: the load never   *)
(* answers a saved manifest by the empty one.                              *)
(***************************************************************************)
C38_ManifestRoundTrip ==
    [][(/\ ext.op = "init_cache"
        /\ ext.pc = "mwrite"
        /\ ext' # ext) =>
          loadSessionManifest(World', ext.args.cacheDir, TRUE) = ext.m]_vars

(***************************************************************************)
(* C39: an init_cache that returns an error because the write of an        *)
(* artifact failed leaves the saved manifest and the cache state as the    *)
(* request found them, so that a topic has an entry in activeSessions only *)
(* when an init_cache of it has written all its artifacts.                 *)
(***************************************************************************)
C39_FailedInitLeavesManifest ==
    [][(/\ Completes("init_cache")
        /\ result'.solo
        /\ result'.status = "InitFailed") =>
          /\ manifestFile' = PreWorld.mf
          /\ cacheState' = PreWorld.cs]_vars

====
